---------------------------- MODULE Spec2Model ----------------------------
(***************************************************************************)
(* Model of the analytics and scheduling core of the adaptive-learning     *)
(* backend (adaptive-learning-platform/backend/app).                       *)
(*                                                                         *)
(* Numbers.  The Python code computes with floats.  The model computes     *)
(* with exact scaled integers:                                             *)
(*   - ease factors are in hundredths        (2.5  is 250),                *)
(*   - scores, masteries and difficulties in thousandths (0.75 is 750),    *)
(*   - exp(-0.14 k) in hundredths, difficulties of mastery attempts in      *)
(*     tenths.                                                             *)
(* Dates are whole days.                                                   *)
(***************************************************************************)
EXTENDS Integers, Sequences, FiniteSets, Bags, TLC

VARIABLES
    args,               \* arguments of the pure function under study
    result,             \* its return value, NoResult before the call
    reviews,            \* db.reviews: review id -> stored review document
    calls,              \* update_review coroutines: caller -> local state
    completed,          \* bag of the responses whose update_review has returned
    review_sessions,    \* db.review_sessions: session id -> review session document
    question_statistics,\* db.question_statistics: the documents, in insertion order
    unique_index,       \* whether startup created the unique index on question_id
    stats_calls,        \* update_question_stats coroutines: caller -> local state
    attempts,           \* question id -> attempts whose update_question_stats has ended
    db_questions,       \* db.questions: question id -> question document
    test_sessions,      \* db.test_sessions: session id -> session document
    inserted_sessions,  \* number of sessions inserted so far (the next id)
    requests,           \* start_test and submit_answer coroutines: caller -> local state
    tasks,              \* background generation tasks: questions each has yet to insert
    now                 \* datetime.utcnow()

pureVars == <<args, result>>
reviewVars == <<reviews, calls, completed, review_sessions>>
statsVars == <<question_statistics, unique_index, stats_calls, attempts>>
testVars == <<db_questions, test_sessions, inserted_sessions, requests, tasks, now>>

vars == <<pureVars, reviewVars, statsVars, testVars>>

\* what the actions of one part of the program leave alone
notPure == <<reviewVars, statsVars, testVars>>
notReview == <<pureVars, statsVars, testVars, review_sessions>>
notStats == <<pureVars, reviewVars, testVars>>
notTest == <<pureVars, reviewVars, unique_index, stats_calls, attempts>>

\* result is <<>> before the call and <<value>> after it
NoResult == <<>>
NoArgs == <<>>

-----------------------------------------------------------------------------
(* Bounds of the model *)

MaxIntervalIn == 7      \* largest prior interval handed to calculate_next_review
MaxRepetitionsIn == 3   \* largest prior repetitions handed to it
MaxResponses == 3       \* update_review calls started in one behaviour
MaxAttempts == 3        \* update_question_stats calls started in one behaviour
MaxPool == 3            \* questions in a pool handed to the selection functions
MaxNeeded == 3          \* largest num_needed asked of get_available_questions
MaxHesitation == 4      \* largest hesitation_count of an answer
MaxHistory == 4         \* attempts of a topic handed to _calculate_weighted_mastery
MaxSignals == 2         \* signals handed to identify_weakness_areas_v2
MaxSessions == 2        \* test sessions inserted in one behaviour
MaxSubmits == 2         \* answers submitted in one behaviour
MaxTasks == 2           \* background generation tasks alive at once
MaxTotalQuestions == 2  \* largest total_questions of a test, num_questions of a task
MaxMistakeCalls == 2    \* create_reviews_from_mistakes calls started in one behaviour
MaxTimesAnswered == 4   \* times_answered of a question under update_question_performance
MaxSections == 2        \* sections of a document
MaxWeaknesses == 4      \* entries of a weakness list
MaxCompleted == 2       \* completed sessions of the user for the document
MaxOverallScore == 1000 \* overall_score of the exam readiness, in tenths
MaxDue == 3             \* review items in db.reviews for the due queue
MaxLimit == 2           \* limit of get_due_reviews
MaxReviewResponses == 2 \* submit_review_response requests started in one behaviour
MaxRun == 6             \* calculate_next_review calls in one run

-----------------------------------------------------------------------------
(* The parts of the program at rest.  A specification that studies one part *)
(* starts the other parts at rest and never moves them.                     *)

Callers == {"a", "b"}           \* concurrent requests
QuestionIds == {"q1", "q2"}

IdleCall == [pc |-> "idle"]

PureIdle ==
    /\ args = NoArgs
    /\ result = NoResult

ReviewStoreIdle ==
    /\ reviews = <<>>
    /\ calls = [p \in Callers |-> IdleCall]
    /\ completed = EmptyBag
    /\ review_sessions = <<>>

StatsIdle ==
    /\ question_statistics = <<>>
    /\ unique_index = TRUE
    /\ stats_calls = [p \in Callers |-> IdleCall]
    /\ attempts = [q \in QuestionIds |-> [total |-> 0, correct |-> 0]]

TestIdle ==
    /\ db_questions = <<>>
    /\ test_sessions = <<>>
    /\ inserted_sessions = 0
    /\ requests = [p \in Callers |-> IdleCall]
    /\ tasks = <<>>
    /\ now = 1

-----------------------------------------------------------------------------
(* Arithmetic helpers *)

Max(a, b) == IF a >= b THEN a ELSE b
Min(a, b) == IF a <= b THEN a ELSE b

\* Python 3 round(n / d) for n >= 0, d > 0: nearest integer, ties to even.
Round(n, d) ==
    LET q == n \div d
        r == n % d
    IN  IF 2 * r < d THEN q
        ELSE IF 2 * r > d THEN q + 1
        ELSE IF q % 2 = 0 THEN q ELSE q + 1

-----------------------------------------------------------------------------
(* SM-2: SpacedRepetitionService.calculate_next_review *)

Qualities == 0..5

\* ease factors handed to the pure function, in hundredths
EaseInputs == {100, 130, 136, 150, 200, 250, 260, 300}

\* the change of ease without the quadratic term
EaseDelta_linear(quality) == 10 - (5 - quality) * 8

\* 0.1 - (5 - quality) * (0.08 + (5 - quality) * 0.02), in hundredths
EaseDelta(quality) == 10 - (5 - quality) * (8 + (5 - quality) * 2)

MinEaseFactor == 130

\* the third and later intervals computed from the interval of the second
calculate_next_review_from_six(interval, repetitions, ease_factor, quality) ==
    LET new_ease_factor == Max(MinEaseFactor, ease_factor + EaseDelta(quality))
        new_repetitions == IF quality < 3 THEN 0 ELSE repetitions + 1
        new_interval ==
            IF quality < 3 THEN 1
            ELSE IF new_repetitions = 1 THEN 1
            ELSE IF new_repetitions = 2 THEN 6
            ELSE Round(6 * new_ease_factor, 100)
    IN  [interval |-> new_interval,
         repetitions |-> new_repetitions,
         ease_factor |-> new_ease_factor]

calculate_next_review_noclamp(interval, repetitions, ease_factor, quality) ==
    LET new_ease_factor == ease_factor + EaseDelta(quality)
        new_repetitions == IF quality < 3 THEN 0 ELSE repetitions + 1
        new_interval ==
            IF quality < 3 THEN 1
            ELSE IF new_repetitions = 1 THEN 1
            ELSE IF new_repetitions = 2 THEN 6
            ELSE Round(interval * new_ease_factor, 100)
    IN  [interval |-> new_interval,
         repetitions |-> new_repetitions,
         ease_factor |-> new_ease_factor]

calculate_next_review_noreset(interval, repetitions, ease_factor, quality) ==
    LET new_ease_factor == Max(MinEaseFactor, ease_factor + EaseDelta(quality))
        new_repetitions == IF quality < 2 THEN 0 ELSE repetitions + 1
        new_interval ==
            IF quality < 2 THEN 1
            ELSE IF new_repetitions = 1 THEN 1
            ELSE IF new_repetitions = 2 THEN 6
            ELSE Round(interval * new_ease_factor, 100)
    IN  [interval |-> new_interval,
         repetitions |-> new_repetitions,
         ease_factor |-> new_ease_factor]

calculate_next_review(interval, repetitions, ease_factor, quality) ==
    LET new_ease_factor == Max(MinEaseFactor, ease_factor + EaseDelta(quality))
        new_repetitions == IF quality < 3 THEN 0 ELSE repetitions + 1
        new_interval ==
            IF quality < 3 THEN 1
            ELSE IF new_repetitions = 1 THEN 1
            ELSE IF new_repetitions = 2 THEN 6
            ELSE Round(interval * new_ease_factor, 100)
    IN  [interval |-> new_interval,
         repetitions |-> new_repetitions,
         ease_factor |-> new_ease_factor]

-----------------------------------------------------------------------------
(* The review store: create_review, update_review, reschedule_review *)

ReviewIds == {"r1"}
MissingReviewId == "r0"
\* every datetime.utcnow() of a behaviour reads the same day; a review can be
\* rescheduled to a later day
Dates == {0}
RescheduleDates == {30}

\* Review(...) as built by create_review; average_quality is kept as
\* quality_sum = average_quality * total_reviews.
NewReview(today) ==
    [interval |-> 1,
     repetitions |-> 0,
     ease_factor |-> 250,
     next_review_date |-> today + 1,
     last_reviewed_at |-> -1,
     total_reviews |-> 0,
     successful_reviews |-> 0,
     quality_sum |-> 0]

create_review(rid, today) ==
    /\ rid \notin DOMAIN reviews
    /\ reviews' = [r \in DOMAIN reviews \cup {rid} |->
                      IF r = rid THEN NewReview(today) ELSE reviews[r]]
    /\ UNCHANGED <<notReview, calls, completed>>

Started == BagCardinality(completed) + Cardinality({p \in Callers : calls[p].pc # "idle"})

\* update_review up to its first await: find_one, or ValueError
update_review_find(p, rid, quality, correct) ==
    /\ calls[p].pc = "idle"
    /\ Started < MaxResponses
    /\ rid \in DOMAIN reviews
    /\ calls' = [calls EXCEPT ![p] =
                    [pc |-> "found", rid |-> rid, quality |-> quality,
                     correct |-> correct, review |-> reviews[rid]]]
    /\ UNCHANGED <<notReview, reviews, completed>>

update_review_not_found(p, rid) ==
    /\ calls[p].pc = "idle"
    /\ rid \notin DOMAIN reviews
    /\ UNCHANGED vars

\* the review as update_review rewrites it from the copy it read
UpdatedReview(review, quality, correct, today) ==
    LET n == calculate_next_review(review.interval, review.repetitions,
                                   review.ease_factor, quality)
    IN  [interval |-> n.interval,
         repetitions |-> n.repetitions,
         ease_factor |-> n.ease_factor,
         next_review_date |-> today + n.interval,
         last_reviewed_at |-> today,
         total_reviews |-> review.total_reviews + 1,
         successful_reviews |-> review.successful_reviews + (IF correct THEN 1 ELSE 0),
         quality_sum |-> review.quality_sum + quality]

\* update_review from the SM-2 computation to the update_one that $sets
\* every field of the copy
update_review_save(p, today) ==
    /\ calls[p].pc = "found"
    /\ reviews' = [reviews EXCEPT ![calls[p].rid] =
                      UpdatedReview(calls[p].review, calls[p].quality,
                                    calls[p].correct, today)]
    /\ completed' = completed (+)
           SetToBag({[quality |-> calls[p].quality, correct |-> calls[p].correct]})
    /\ calls' = [calls EXCEPT ![p] = IdleCall]
    /\ UNCHANGED notReview

reschedule_review(rid, new_date) ==
    /\ rid \in DOMAIN reviews
    /\ reviews' = [reviews EXCEPT ![rid].next_review_date = new_date]
    /\ UNCHANGED <<notReview, calls, completed>>

InitReview ==
    /\ PureIdle
    /\ ReviewStoreIdle
    /\ TestIdle
    /\ StatsIdle

NextReview ==
    \/ \E rid \in ReviewIds, today \in Dates : create_review(rid, today)
    \/ \E p \in Callers, rid \in ReviewIds, quality \in Qualities, correct \in BOOLEAN :
          update_review_find(p, rid, quality, correct)
    \/ \E p \in Callers : update_review_not_found(p, MissingReviewId)
    \/ \E p \in Callers, today \in Dates : update_review_save(p, today)
    \/ \E rid \in ReviewIds, new_date \in RescheduleDates : reschedule_review(rid, new_date)

SpecReview == InitReview /\ [][NextReview]_vars

-----------------------------------------------------------------------------
(* Question documents of db.questions and their reuse-tracking fields.      *)
(* A document is a record; a field the document does not have is not in its *)
(* DOMAIN.  Timestamps are positive integers.                               *)

None == -1              \* Python None / BSON null, where a datetime may stand
DatetimeMin == 0        \* datetime.min

\* dict.get(field, default)
Get(q, field, default) == IF field \in DOMAIN q THEN q[field] ELSE default

\* q with the fields of u set ($set, $inc results)
SetFields(q, u) ==
    [f \in DOMAIN q \cup DOMAIN u |-> IF f \in DOMAIN u THEN u[f] ELSE q[f]]

-----------------------------------------------------------------------------
(* QuestionSelectionService._prioritize_questions *)

priority_score_no_wrong_tier(q) ==
    LET times_answered == Get(q, "times_answered", 0)
        times_correct == Get(q, "times_correct", 0)
        last_used == Get(q, "last_used_at", DatetimeMin)
    IN  IF times_answered = 0 THEN <<0, last_used>>
        ELSE IF times_correct = 1 THEN <<2, last_used>>
        ELSE <<3, last_used>>

priority_score(q) ==
    LET times_answered == Get(q, "times_answered", 0)
        times_correct == Get(q, "times_correct", 0)
        last_used == Get(q, "last_used_at", DatetimeMin)
    IN  IF times_answered = 0 THEN <<0, last_used>>
        ELSE IF times_correct < times_answered THEN <<1, last_used>>
        ELSE IF times_correct = 1 THEN <<2, last_used>>
        ELSE <<3, last_used>>

\* k1 < k2 on (int, datetime-or-None) tuples, as Python compares them:
\* the first items that differ decide; None < datetime raises TypeError.
KeyLess(k1, k2) ==
    IF k1[1] # k2[1] THEN (IF k1[1] < k2[1] THEN "lt" ELSE "ge")
    ELSE IF k1[2] = k2[2] THEN "ge"
    ELSE IF k1[2] = None \/ k2[2] = None THEN "TypeError"
    ELSE IF k1[2] < k2[2] THEN "lt" ELSE "ge"

Less(q1, q2) == KeyLess(priority_score(q1), priority_score(q2))

Reverse(s) == [i \in 1..Len(s) |-> s[Len(s) + 1 - i]]

\* list.sort's count_run: the length of the run the list starts with,
\* non-descending or strictly descending; 0 stands for a TypeError.
RECURSIVE RunEnd(_, _, _)
RunEnd(s, i, descending) ==
    IF i > Len(s) THEN Len(s)
    ELSE LET c == Less(s[i], s[i - 1])
         IN  IF c = "TypeError" THEN 0
             ELSE IF (c = "lt") = descending THEN RunEnd(s, i + 1, descending)
             ELSE i - 1

\* list.sort's binarysort: where the pivot goes in the sorted list a, as
\* the number of elements left of it; -1 stands for a TypeError.
RECURSIVE BinarySearch(_, _, _, _)
BinarySearch(a, pivot, l, r) ==
    IF l >= r THEN l
    ELSE LET p == l + ((r - l) \div 2)
             c == Less(pivot, a[p + 1])
         IN  IF c = "TypeError" THEN -1
             ELSE IF c = "lt" THEN BinarySearch(a, pivot, l, p)
             ELSE BinarySearch(a, pivot, p + 1, r)

InsertAt(a, pos, x) ==
    [i \in 1..(Len(a) + 1) |->
        IF i <= pos THEN a[i] ELSE IF i = pos + 1 THEN x ELSE a[i - 1]]

Raised == [ok |-> FALSE, list |-> <<>>]
Returned(list) == [ok |-> TRUE, list |-> list]

\* binary insertion of s[start..] into the sorted list a
RECURSIVE BinarySort(_, _, _)
BinarySort(a, s, start) ==
    IF start > Len(s) THEN Returned(a)
    ELSE LET pos == BinarySearch(a, s[start], 0, Len(a))
         IN  IF pos < 0 THEN Raised
             ELSE BinarySort(InsertAt(a, pos, s[start]), s, start + 1)

\* sorted(questions, key=priority_score), for the lists of fewer than 64
\* elements that list.sort sorts by binary insertion
_prioritize_questions(questions) ==
    IF Len(questions) < 2 THEN Returned(questions)
    ELSE LET first == Less(questions[2], questions[1])
             n == IF first = "TypeError" THEN 0
                  ELSE RunEnd(questions, 3, first = "lt")
             run == IF first = "lt" THEN Reverse(SubSeq(questions, 1, n))
                    ELSE SubSeq(questions, 1, n)
         IN  IF n = 0 THEN Raised
             ELSE BinarySort(run, questions, n + 1)

\* the documents the query of get_available_questions matches, in the
\* cursor's (natural) order: the document's and the user's questions with
\* is_mastered False or missing
RECURSIVE Find(_, _, _)
Find(pool, document_id, user_id) ==
    IF pool = <<>> THEN <<>>
    ELSE LET q == Head(pool)
             hit == /\ q.document_id = document_id
                    /\ q.user_id = user_id
                    /\ Get(q, "is_mastered", FALSE) = FALSE
         IN  (IF hit THEN <<q>> ELSE <<>>) \o Find(Tail(pool), document_id, user_id)

RECURSIVE FindAll(_, _, _)
FindAll(pool, document_id, user_id) ==
    IF pool = <<>> THEN <<>>
    ELSE LET q == Head(pool)
             hit == /\ q.document_id = document_id
                    /\ q.user_id = user_id
         IN  (IF hit THEN <<q>> ELSE <<>>) \o FindAll(Tail(pool), document_id, user_id)

Take(list, n) == SubSeq(list, 1, Min(n, Len(list)))

get_available_questions_with_mastered(pool, document_id, user_id, num_needed) ==
    LET prioritized == _prioritize_questions(FindAll(pool, document_id, user_id))
        selected == Take(prioritized.list, num_needed)
    IN  [ok |-> prioritized.ok,
         selected |-> selected,
         needs_generation |-> prioritized.ok /\ Len(selected) < num_needed]

\* (the optional question_types, topics and difficulty_levels filters are
\* not given)
get_available_questions(pool, document_id, user_id, num_needed) ==
    LET prioritized == _prioritize_questions(Find(pool, document_id, user_id))
        selected == Take(prioritized.list, num_needed)
    IN  [ok |-> prioritized.ok,
         selected |-> selected,
         needs_generation |-> prioritized.ok /\ Len(selected) < num_needed]

-----------------------------------------------------------------------------
(* Question statistics: QuestionStatsService.update_question_stats *)

TimesTaken == {10, 70}

\* QuestionStatistics(question_id=...); avg_time_taken is kept as
\* time_sum = avg_time_taken * total_attempts, and empirical_difficulty
\* (correct_attempts / total_attempts, 0.5 before any attempt) is EmpiricalDifficulty
NewQuestionStatistics(question_id) ==
    [question_id |-> question_id,
     total_attempts |-> 0,
     correct_attempts |-> 0,
     time_sum |-> 0]

\* in thousandths, rounded down
EmpiricalDifficulty(stats) ==
    IF stats.total_attempts = 0 THEN 500
    ELSE (1000 * stats.correct_attempts) \div stats.total_attempts

update_from_attempt(stats, correct, time_taken) ==
    [stats EXCEPT !.total_attempts = @ + 1,
                  !.correct_attempts = @ + (IF correct THEN 1 ELSE 0),
                  !.time_sum = @ + time_taken]

\* positions of the documents a {"question_id": ...} filter matches
Matching(question_id) ==
    {i \in 1..Len(question_statistics) :
        question_statistics[i].question_id = question_id}

FirstMatching(question_id) ==
    CHOOSE i \in Matching(question_id) : \A j \in Matching(question_id) : i <= j

StatsStarted ==
    LET ended == attempts["q1"].total + attempts["q2"].total
    IN  ended + Cardinality({p \in Callers : stats_calls[p].pc # "idle"})

\* update_question_stats up to its await of find_one
update_question_stats_find(p, question_id, correct, time_taken) ==
    /\ stats_calls[p].pc = "idle"
    /\ StatsStarted < MaxAttempts
    /\ stats_calls' = [stats_calls EXCEPT ![p] =
          [pc |-> IF Matching(question_id) = {} THEN "absent" ELSE "found",
           question_id |-> question_id,
           correct |-> correct,
           time_taken |-> time_taken,
           stats_doc |-> IF Matching(question_id) = {}
                         THEN NewQuestionStatistics(question_id)
                         ELSE question_statistics[FirstMatching(question_id)]]]
    /\ UNCHANGED <<notStats, question_statistics, unique_index, attempts>>

Ended(p) ==
    [attempts EXCEPT ![stats_calls[p].question_id] =
        [total |-> @.total + 1,
         correct |-> @.correct + (IF stats_calls[p].correct THEN 1 ELSE 0)]]

\* the stats_doc branch: update_from_attempt on the copy, then update_one $set
update_question_stats_update(p) ==
    LET c == stats_calls[p]
        stats == update_from_attempt(c.stats_doc, c.correct, c.time_taken)
    IN  /\ c.pc = "found"
        /\ question_statistics' =
              IF Matching(c.question_id) = {} THEN question_statistics
              ELSE [question_statistics EXCEPT ![FirstMatching(c.question_id)] = stats]
        /\ stats_calls' = [stats_calls EXCEPT ![p] = IdleCall]
        /\ attempts' = Ended(p)
        /\ UNCHANGED <<notStats, unique_index>>

\* the else branch: a new QuestionStatistics, update_from_attempt, insert_one
update_question_stats_insert(p) ==
    LET c == stats_calls[p]
        stats == update_from_attempt(c.stats_doc, c.correct, c.time_taken)
    IN  /\ c.pc = "absent"
        /\ ~(unique_index /\ Matching(c.question_id) # {})
        /\ question_statistics' = Append(question_statistics, stats)
        /\ stats_calls' = [stats_calls EXCEPT ![p] = IdleCall]
        /\ attempts' = Ended(p)
        /\ UNCHANGED <<notStats, unique_index>>

\* insert_one against the unique index on question_id: DuplicateKeyError
update_question_stats_duplicate(p) ==
    LET c == stats_calls[p]
    IN  /\ c.pc = "absent"
        /\ unique_index /\ Matching(c.question_id) # {}
        /\ stats_calls' = [stats_calls EXCEPT ![p] = IdleCall]
        /\ attempts' = Ended(p)
        /\ UNCHANGED <<notStats, question_statistics, unique_index>>

\* startup_event: create_indexes may fail, which is only logged
InitStats ==
    /\ PureIdle
    /\ ReviewStoreIdle
    /\ TestIdle
    /\ question_statistics = <<>>
    /\ unique_index \in BOOLEAN
    /\ stats_calls = [p \in Callers |-> IdleCall]
    /\ attempts = [q \in QuestionIds |-> [total |-> 0, correct |-> 0]]

NextStats ==
    \/ \E p \in Callers, question_id \in QuestionIds, correct \in BOOLEAN,
          time_taken \in TimesTaken :
          update_question_stats_find(p, question_id, correct, time_taken)
    \/ \E p \in Callers : update_question_stats_update(p)
    \/ \E p \in Callers : update_question_stats_insert(p)
    \/ \E p \in Callers : update_question_stats_duplicate(p)

SpecStats == InitStats /\ [][NextStats]_vars

-----------------------------------------------------------------------------
(* calculate_next_review as a pure function of its arguments *)

SM2Args ==
    [interval : 0..MaxIntervalIn,
     repetitions : 0..MaxRepetitionsIn,
     ease_factor : EaseInputs,
     quality : Qualities]

InitSM2 ==
    /\ args \in SM2Args
    /\ result = NoResult
    /\ ReviewStoreIdle
    /\ TestIdle
    /\ StatsIdle

CallCalculateNextReview ==
    /\ result = NoResult
    /\ result' = <<calculate_next_review(args.interval, args.repetitions,
                                         args.ease_factor, args.quality)>>
    /\ UNCHANGED <<args, notPure>>

NextSM2 == CallCalculateNextReview

SpecSM2 == InitSM2 /\ [][NextSM2]_vars

-----------------------------------------------------------------------------
(* A run of calculate_next_review calls, each fed the result of the one
   before, as test_sm2_algorithm and update_review do: args is the sequence
   of the arguments of the calls made, result the sequence of what they
   returned *)

FirstReview == [interval |-> 1, repetitions |-> 0, ease_factor |-> 250]

InitRun ==
    /\ args = <<>>
    /\ result = <<>>
    /\ ReviewStoreIdle
    /\ TestIdle
    /\ StatsIdle

CallCalculateNextReviewAgain ==
    /\ Len(result) < MaxRun
    /\ \E quality \in Qualities :
           LET last == IF result = <<>> THEN FirstReview ELSE result[Len(result)]
           IN  /\ args' = Append(args, [interval |-> last.interval,
                                        repetitions |-> last.repetitions,
                                        ease_factor |-> last.ease_factor,
                                        quality |-> quality])
               /\ result' = Append(result,
                                   calculate_next_review(last.interval, last.repetitions,
                                                         last.ease_factor, quality))
    /\ UNCHANGED notPure

NextRun == CallCalculateNextReviewAgain

SpecRun == InitRun /\ [][NextRun]_vars

-----------------------------------------------------------------------------
(* _prioritize_questions as a pure function of the pool it is given *)

Document == "d1"
User == "u1"

\* times_answered, times_correct: one pair for each way the two compare
Counters == {<<0, 0>>, <<1, 0>>, <<1, 1>>, <<2, 1>>, <<2, 2>>, <<3, 2>>}

\* last_used_at as the program leaves it: missing (WithLastUsed keeps q),
\* None (the migration), or the time mark_questions_used ran
LastUsedValues == {None, 1, 2}

WithLastUsed(q) == {q} \cup {SetFields(q, [last_used_at |-> t]) : t \in LastUsedValues}

\* a question as generate_questions_background inserts it
NewQuestion(document_id, user_id) == [document_id |-> document_id, user_id |-> user_id]

\* a question with its counters; is_mastered is set once times_correct >= 2
Tracked(document_id, user_id, c) ==
    SetFields(NewQuestion(document_id, user_id),
              [times_answered |-> c[1], times_correct |-> c[2],
               is_mastered |-> (c[2] >= 2)])

PrioritizeDocs ==
    UNION { WithLastUsed(q) :
              q \in {NewQuestion(Document, User)}
                    \cup {Tracked(Document, User, c) : c \in Counters} }

Pools(docs) == UNION { [1..n -> docs] : n \in 0..MaxPool }

InitPrioritize ==
    /\ args \in Pools(PrioritizeDocs)
    /\ result = NoResult
    /\ ReviewStoreIdle
    /\ TestIdle
    /\ StatsIdle

CallPrioritizeQuestions ==
    /\ result = NoResult
    /\ result' = <<_prioritize_questions(args)>>
    /\ UNCHANGED <<args, notPure>>

NextPrioritize == CallPrioritizeQuestions

SpecPrioritize == InitPrioritize /\ [][NextPrioritize]_vars

-----------------------------------------------------------------------------
(* get_available_questions as a pure function of db.questions *)

SelectCounters == {<<0, 0>>, <<1, 1>>, <<5, 1>>, <<2, 2>>}

\* the user's questions of the document, one of them between the $inc that
\* made times_correct 2 and the $set of is_mastered, and other questions
SelectDocs ==
    UNION { WithLastUsed(q) :
              q \in {NewQuestion(Document, User)}
                    \cup {Tracked(Document, User, c) : c \in SelectCounters}
                    \cup {SetFields(Tracked(Document, User, <<2, 2>>),
                                    [is_mastered |-> FALSE])} }
    \cup {NewQuestion("d2", User), NewQuestion(Document, "u2")}

InitSelect ==
    /\ args \in [pool : Pools(SelectDocs), num_needed : 1..MaxNeeded]
    /\ result = NoResult
    /\ ReviewStoreIdle
    /\ TestIdle
    /\ StatsIdle

CallGetAvailableQuestions ==
    /\ result = NoResult
    /\ result' = <<get_available_questions(args.pool, Document, User, args.num_needed)>>
    /\ UNCHANGED <<args, notPure>>

NextSelect == CallGetAvailableQuestions

SpecSelect == InitSelect /\ [][NextSelect]_vars

-----------------------------------------------------------------------------
(* Cognitive scorer: app/services/analytics_service_v2.py.  Scores and      *)
(* empirical difficulties are in thousandths (0.7 is 700).  The float sums  *)
(* 0.7 + 0.1 and 0.7 + 0.2 are one ulp below 0.8 and 0.9; in thousandths    *)
(* they are 800 and 900.                                                    *)

FAST_THRESHOLD == 20
SLOW_THRESHOLD == 60
EASY_DIFFICULTY == 700
HARD_DIFFICULTY == 300
BootstrapDifficulty == 500

AnswerStatus == {"correct", "wrong", "skipped", "not_attempted"}

\* Optional[QuestionStatistics]: <<>> is None
NoQuestionStats == <<>>

extract_behavioral_signals(answer, question_data, question_stats) ==
    [question_id |-> answer.question_id,
     time_spent |-> answer.time_taken,
     answered |-> answer.status # "skipped",
     correct |-> answer.status = "correct",
     changed_answer |-> answer.changed_answer,
     hesitation_count |-> answer.hesitation_count,
     marked_tricky |-> answer.marked_tricky,
     empirical_difficulty |->
         IF question_stats # NoQuestionStats
         THEN question_stats[1].empirical_difficulty
         ELSE BootstrapDifficulty,
     topic |-> Get(question_data, "topic", "Unknown"),
     llm_difficulty |-> Get(question_data, "difficulty", "medium")]

CognitiveScores(question_id) ==
    [question_id |-> question_id,
     guessing_score |-> 0,
     confusion_score |-> 0,
     avoidance_score |-> 0,
     knowledge_gap_score |-> 0,
     confidence_score |-> 0]

\* the scorer with every threshold comparison made inclusive
compute_cognitive_scores_inclusive(signal) ==
    LET scores == CognitiveScores(signal.question_id)
    IN  IF ~signal.answered
        THEN [scores EXCEPT !.avoidance_score =
                 IF signal.empirical_difficulty >= EASY_DIFFICULTY THEN 900 ELSE 600]
        ELSE IF ~signal.correct
        THEN [scores EXCEPT
                 !.guessing_score =
                     IF signal.time_spent <= FAST_THRESHOLD
                     THEN IF signal.empirical_difficulty <= HARD_DIFFICULTY
                          THEN 800 ELSE 500
                     ELSE @,
                 !.confusion_score =
                     IF signal.time_spent >= SLOW_THRESHOLD
                     THEN Min(700 + Min(signal.hesitation_count * 100, 300), 1000)
                     ELSE @,
                 !.knowledge_gap_score =
                     IF signal.empirical_difficulty >= EASY_DIFFICULTY THEN 900 ELSE @]
        ELSE [scores EXCEPT
                 !.confidence_score =
                     IF signal.time_spent <= FAST_THRESHOLD /\ ~signal.changed_answer
                     THEN 900
                     ELSE IF ~signal.changed_answer /\ ~signal.marked_tricky
                     THEN 700 ELSE @]

compute_cognitive_scores(signal) ==
    LET scores == CognitiveScores(signal.question_id)
    IN  IF ~signal.answered
        THEN [scores EXCEPT !.avoidance_score =
                 IF signal.empirical_difficulty > EASY_DIFFICULTY THEN 900 ELSE 600]
        ELSE IF ~signal.correct
        THEN [scores EXCEPT
                 !.guessing_score =
                     IF signal.time_spent < FAST_THRESHOLD
                     THEN IF signal.empirical_difficulty < HARD_DIFFICULTY
                          THEN 800 ELSE 500
                     ELSE @,
                 !.confusion_score =
                     IF signal.time_spent > SLOW_THRESHOLD
                     THEN Min(700 + Min(signal.hesitation_count * 100, 300), 1000)
                     ELSE @,
                 !.knowledge_gap_score =
                     IF signal.empirical_difficulty > EASY_DIFFICULTY THEN 900 ELSE @]
        ELSE [scores EXCEPT
                 !.confidence_score =
                     IF signal.time_spent < FAST_THRESHOLD /\ ~signal.changed_answer
                     THEN 900
                     ELSE IF ~signal.changed_answer /\ ~signal.marked_tricky
                     THEN 700 ELSE @]

(* compute_cognitive_scores as a pure function of the signal *)

TimesSpent == {19, 20, 21, 59, 60, 61}
Difficulties == {299, 300, 301, 699, 700, 701}

Answers ==
    [question_id : {"q1"},
     status : AnswerStatus,
     time_taken : TimesSpent,
     changed_answer : BOOLEAN,
     hesitation_count : 0..MaxHesitation,
     marked_tricky : BOOLEAN]

QuestionStats ==
    {NoQuestionStats} \cup {<<[empirical_difficulty |-> d]>> : d \in Difficulties}

Signals ==
    {extract_behavioral_signals(a, [topic |-> "t1"], s) :
        a \in Answers, s \in QuestionStats}

InitScorer ==
    /\ args \in Signals
    /\ result = NoResult
    /\ ReviewStoreIdle
    /\ TestIdle
    /\ StatsIdle

CallComputeCognitiveScores ==
    /\ result = NoResult
    /\ result' = <<compute_cognitive_scores(args)>>
    /\ UNCHANGED <<args, notPure>>

NextScorer == CallComputeCognitiveScores

SpecScorer == InitScorer /\ [][NextScorer]_vars

-----------------------------------------------------------------------------
(* Topic mastery: _calculate_weighted_mastery.  The recency weight          *)
(* math.exp(-0.14 * k) is in hundredths, the difficulty of an attempt in    *)
(* tenths, and the returned quotient is kept exact as num / den.            *)

ExpDecay == <<100, 87, 76, 66, 57, 50, 43, 38>>

RecencyWeight(k) == ExpDecay[k + 1]

Score(num, den) == [num |-> num, den |-> den]
Zero == Score(0, 1)

\* the loop over enumerate(attempts), from the i-th attempt (1-based) on
RECURSIVE WeightedSums(_, _, _)
WeightedSums(history, i, sums) ==
    IF i > Len(history)
    THEN sums
    ELSE LET correctness == IF history[i].correct THEN 1 ELSE 0
             difficulty_weight == 10 - history[i].difficulty
             recency_weight == RecencyWeight(Len(history) - i)
             weight == difficulty_weight * recency_weight
         IN  WeightedSums(history, i + 1,
                 [weighted_sum |-> sums.weighted_sum + correctness * weight,
                  total_weight |-> sums.total_weight + weight])

NoSums == [weighted_sum |-> 0, total_weight |-> 0]

\* the weighted sum divided by the number of attempts, not by the weights
_calculate_weighted_mastery_unnormalised(history) ==
    IF history = <<>>
    THEN Zero
    ELSE Score(WeightedSums(history, 1, NoSums).weighted_sum,
               Len(history) * 10 * 100)

_calculate_weighted_mastery(history) ==
    IF history = <<>>
    THEN Zero
    ELSE LET sums == WeightedSums(history, 1, NoSums)
         IN  IF sums.total_weight > 0
             THEN Score(sums.weighted_sum, sums.total_weight)
             ELSE Zero

(* _calculate_weighted_mastery over a growing history of one topic *)

AttemptDifficulties == {0, 3, 10}

Attempts == [correct : BOOLEAN, difficulty : AttemptDifficulties]

InitMastery ==
    /\ args \in UNION {[1..n -> Attempts] : n \in 0..MaxHistory}
    /\ result = NoResult
    /\ ReviewStoreIdle
    /\ TestIdle
    /\ StatsIdle

CallCalculateWeightedMastery ==
    /\ result = NoResult
    /\ result' = <<_calculate_weighted_mastery(args)>>
    /\ UNCHANGED <<args, notPure>>

\* one more answered attempt of the topic, and the score of the longer history
AppendAttempt(attempt) ==
    /\ result # NoResult
    /\ Len(args) < MaxHistory
    /\ args' = Append(args, attempt)
    /\ result' = <<_calculate_weighted_mastery(args')>>
    /\ UNCHANGED notPure

NextMastery ==
    \/ CallCalculateWeightedMastery
    \/ \E attempt \in Attempts : AppendAttempt(attempt)

SpecMastery == InitMastery /\ [][NextMastery]_vars

-----------------------------------------------------------------------------
(* Weakness ranker: identify_weakness_areas_v2.  mastery_score and          *)
(* weakness_score are in thousandths; confidence_penalty is the exact       *)
(* quotient num / den and priority_score the exact quotient num / den in    *)
(* thousandths.                                                             *)

\* {s.question_id: s for s in signals}: the last signal of an id wins
signal_by_id(signals) ==
    [id \in {signals[i].question_id : i \in 1..Len(signals)} |->
        LET last == CHOOSE i \in 1..Len(signals) :
                        /\ signals[i].question_id = id
                        /\ \A j \in 1..Len(signals) :
                              signals[j].question_id = id => j <= i
        IN  signals[last]]

RECURSIVE SumOf(_, _)
SumOf(scores, field) ==
    IF scores = <<>> THEN 0 ELSE scores[1][field] + SumOf(Tail(scores), field)

_calculate_confidence_penalty(scores, signals) ==
    IF scores = <<>>
    THEN Score(1, 1)
    ELSE LET by_id == signal_by_id(signals)
             n == Len(scores)
             confusion_sum == SumOf(scores, "confusion_score")
             marked_count ==
                 Cardinality({i \in 1..n :
                     /\ scores[i].question_id \in DOMAIN by_id
                     /\ by_id[scores[i].question_id].marked_tricky})
             \* 1.0 + avg_confusion * 0.5 + 0.3 * marked_count / n, over 20 n
             \* (a confusion score is a multiple of 0.1)
             penalty == 20 * n + confusion_sum \div 100
                        + (IF marked_count > 0 THEN 6 * marked_count ELSE 0)
         IN  Score(Min(penalty, 40 * n), 20 * n)

_generate_recommendation(mastery, scores) ==
    IF mastery.easy_wrong > mastery.easy_correct
    THEN "review basics first"
    ELSE IF scores # <<>> /\ SumOf(scores, "knowledge_gap_score") > 500 * Len(scores)
    THEN "focused review needed"
    ELSE IF scores # <<>> /\ SumOf(scores, "confusion_score") > 600 * Len(scores)
    THEN "try different explanations or examples"
    ELSE "practice more"

\* the entry of one topic: the body of the loop after the skip
WeaknessAnalysis(mastery, cognitive_scores, signals) ==
    LET by_id == signal_by_id(signals)
        scores == SelectSeq(cognitive_scores,
                      LAMBDA sc : /\ sc.question_id \in DOMAIN by_id
                                  /\ by_id[sc.question_id].topic = mastery.topic)
        question_ids == {scores[i].question_id : i \in 1..Len(scores)}
        weakness_score == 1000 - mastery.mastery_score
        exposure_count == Cardinality(question_ids)
        confidence_penalty == _calculate_confidence_penalty(scores, signals)
    IN  [topic |-> mastery.topic,
         mastery_score |-> mastery.mastery_score,
         weakness_score |-> weakness_score,
         exposure_count |-> exposure_count,
         confidence_penalty |-> confidence_penalty,
         priority_score |->
             Score(weakness_score * exposure_count * confidence_penalty.num,
                   confidence_penalty.den),
         question_ids |-> question_ids,
         cognitive_scores |-> scores,
         recommendation |-> _generate_recommendation(mastery, scores)]

\* weakness_list.sort(key=priority_score, reverse=True): stable, highest first
RECURSIVE SortByPriority(_, _)
SortByPriority(sorted, rest) ==
    IF rest = <<>>
    THEN sorted
    ELSE LET w == rest[1]
             ahead == Cardinality({i \in 1..Len(sorted) :
                          ~(sorted[i].priority_score.num * w.priority_score.den
                            < w.priority_score.num * sorted[i].priority_score.den)})
         IN  SortByPriority(
                 SubSeq(sorted, 1, ahead) \o <<w>> \o SubSeq(sorted, ahead + 1, Len(sorted)),
                 Tail(rest))

\* the ranker without the skip of the topics of high mastery
identify_weakness_areas_v2_no_skip(topic_mastery, cognitive_scores, signals) ==
    SortByPriority(<<>>,
        [i \in 1..Len(topic_mastery) |->
            WeaknessAnalysis(topic_mastery[i], cognitive_scores, signals)])

\* the ranker that skips a topic whose mastery is 0.75 as well
identify_weakness_areas_v2_strict(topic_mastery, cognitive_scores, signals) ==
    LET kept == SelectSeq(topic_mastery, LAMBDA mastery : ~(mastery.mastery_score >= 750))
    IN  SortByPriority(<<>>,
            [i \in 1..Len(kept) |->
                WeaknessAnalysis(kept[i], cognitive_scores, signals)])

identify_weakness_areas_v2(topic_mastery, cognitive_scores, signals) ==
    LET kept == SelectSeq(topic_mastery, LAMBDA mastery : ~(mastery.mastery_score > 750))
    IN  SortByPriority(<<>>,
            [i \in 1..Len(kept) |->
                WeaknessAnalysis(kept[i], cognitive_scores, signals)])

(* identify_weakness_areas_v2 as a pure function: one TopicMastery per      *)
(* topic, as calculate_topic_mastery_v2 builds them, and the cognitive      *)
(* scores of the signals                                                    *)

Topics == {"t1", "t2"}
MasteryScores == {400, 750, 751}

TopicMastery ==
    [topic : Topics, mastery_score : MasteryScores,
     easy_correct : {0}, easy_wrong : {0, 1}]

TopicMasteryLists ==
    {list \in UNION {[1..n -> TopicMastery] : n \in 0..Cardinality(Topics)} :
        \A i, j \in 1..Len(list) : list[i].topic = list[j].topic => i = j}

RankerSignals ==
    {extract_behavioral_signals(
         [question_id |-> id, status |-> "wrong", time_taken |-> t,
          changed_answer |-> FALSE, hesitation_count |-> 0, marked_tricky |-> m],
         [topic |-> topic], NoQuestionStats) :
        id \in QuestionIds, t \in {10, 61}, m \in BOOLEAN, topic \in Topics}

InitRanker ==
    /\ args \in [topic_mastery : TopicMasteryLists,
                 signals : UNION {[1..n -> RankerSignals] : n \in 0..MaxSignals}]
    /\ result = NoResult
    /\ ReviewStoreIdle
    /\ TestIdle
    /\ StatsIdle

CallIdentifyWeaknessAreas ==
    /\ result = NoResult
    /\ result' = <<identify_weakness_areas_v2(
                       args.topic_mastery,
                       [i \in 1..Len(args.signals) |->
                           compute_cognitive_scores(args.signals[i])],
                       args.signals)>>
    /\ UNCHANGED <<args, notPure>>

NextRanker == CallIdentifyWeaknessAreas

SpecRanker == InitRanker /\ [][NextRanker]_vars

-----------------------------------------------------------------------------
(* Adaptive targeting: AnalyticsServiceV2.generate_adaptive_targeting_v2 as *)
(* a pure function of the weakness list; mastery scores in thousandths       *)

\* the targeting without the lower and upper limit of the estimate
generate_adaptive_targeting_v2_unclamped(weakness_areas) ==
    IF weakness_areas = <<>>
    THEN [weak_topics |-> <<>>,
          recommended_difficulty |-> <<"medium">>,
          focus_question_types |-> <<"mcq">>,
          estimated_questions_needed |-> 10]
    ELSE LET top_weakness == weakness_areas[1]
         IN  [weak_topics |-> [i \in 1..Min(3, Len(weakness_areas)) |->
                                  weakness_areas[i].topic],
              recommended_difficulty |->
                  IF top_weakness.mastery_score < 300 THEN <<"easy">>
                  ELSE IF top_weakness.mastery_score < 600 THEN <<"easy", "medium">>
                  ELSE <<"medium">>,
              focus_question_types |-> <<"mcq">>,
              estimated_questions_needed |->
                  (20 * (1000 - top_weakness.mastery_score)) \div 1000]

\* int(20 * (1 - mastery_score)) truncates; the binary fractions of 1 - 0.8
\* and 1 - 0.9 make it one less than the exact quotient, below the limit 5
generate_adaptive_targeting_v2(weakness_areas) ==
    IF weakness_areas = <<>>
    THEN [weak_topics |-> <<>>,
          recommended_difficulty |-> <<"medium">>,
          focus_question_types |-> <<"mcq">>,
          estimated_questions_needed |-> 10]
    ELSE LET top_weakness == weakness_areas[1]
             questions_needed == (20 * (1000 - top_weakness.mastery_score)) \div 1000
         IN  [weak_topics |-> [i \in 1..Min(3, Len(weakness_areas)) |->
                                  weakness_areas[i].topic],
              recommended_difficulty |->
                  IF top_weakness.mastery_score < 300 THEN <<"easy">>
                  ELSE IF top_weakness.mastery_score < 600 THEN <<"easy", "medium">>
                  ELSE <<"medium">>,
              focus_question_types |-> <<"mcq">>,
              estimated_questions_needed |-> Max(5, Min(questions_needed, 50))]

TargetingScores == {0, 299, 300, 599, 600, 1000}

WeaknessAreas ==
    UNION {[1..n -> [topic : Topics, mastery_score : TargetingScores]] :
              n \in 0..MaxWeaknesses}

InitTargeting ==
    /\ args \in WeaknessAreas
    /\ result = NoResult
    /\ ReviewStoreIdle
    /\ TestIdle
    /\ StatsIdle

CallGenerateAdaptiveTargeting ==
    /\ result = NoResult
    /\ result' = <<generate_adaptive_targeting_v2(args)>>
    /\ UNCHANGED <<args, notPure>>

NextTargeting == CallGenerateAdaptiveTargeting

SpecTargeting == InitTargeting /\ [][NextTargeting]_vars

-----------------------------------------------------------------------------
(* Test taking: start_test and submit_answer of app/routes/tests.py over    *)
(* db.questions, db.test_sessions and db.question_statistics, the           *)
(* background question generation of app/routes/questions.py and the        *)
(* tracking-field migration of app/routes/migration.py.  One user and one   *)
(* document, which exists and has sections.  A handler takes one step per   *)
(* awaited database operation.                                              *)

QuestionOrder == <<"q1", "q2">>     \* the _id of the questions, in insertion order
SubmitTimes == {10}                 \* time_taken of a submitted answer

\* db.questions in natural (insertion) order
AllQuestions ==
    [i \in 1..Cardinality(DOMAIN db_questions) |-> db_questions[QuestionOrder[i]]]

StartPcs == {"start_delete", "start_select", "start_mark", "start_insert"}
SubmitPcs == {"submit_question", "submit_stats_find", "submit_stats_write",
              "submit_performance", "submit_mastered", "submit_session"}

Starting == {p \in Callers : requests[p].pc \in StartPcs}
Submitting == {p \in Callers : requests[p].pc \in SubmitPcs}

RECURSIVE TotalAttempts(_)
TotalAttempts(stats) ==
    IF stats = <<>> THEN 0 ELSE Head(stats).total_attempts + TotalAttempts(Tail(stats))

InProgress == {sid \in DOMAIN test_sessions : test_sessions[sid].status = "in_progress"}

\* start_test up to its first await after find_one of an in-progress session:
\* resume it (nothing changes), or go on to delete it, or go on to select
start_test_find_existing(p, total_questions) ==
    /\ requests[p].pc = "idle"
    /\ inserted_sessions + Cardinality(Starting) < MaxSessions
    /\ Len(tasks) + Cardinality(Starting) < MaxTasks
    /\ IF InProgress = {}
       THEN requests' = [requests EXCEPT ![p] =
                [pc |-> "start_select", total_questions |-> total_questions,
                 existing_test |-> None]]
       ELSE LET sid == CHOOSE x \in InProgress : \A y \in InProgress : x <= y
                answers == test_sessions[sid].answers
                has_correct == \E i \in 1..Len(answers) :
                                   Get(answers[i], "is_correct", FALSE) = TRUE
            IN  IF has_correct
                THEN UNCHANGED requests
                ELSE requests' = [requests EXCEPT ![p] =
                         [pc |-> "start_delete", total_questions |-> total_questions,
                          existing_test |-> sid]]
    /\ UNCHANGED <<notTest, question_statistics, db_questions, test_sessions,
                   inserted_sessions, tasks, now>>

\* db.test_sessions.delete_one of the session without a correct answer
start_test_delete(p) ==
    LET r == requests[p]
    IN  /\ r.pc = "start_delete"
        /\ test_sessions' = [sid \in DOMAIN test_sessions \ {r.existing_test} |->
                                test_sessions[sid]]
        /\ requests' = [requests EXCEPT ![p] =
               [r EXCEPT !.pc = "start_select"]]
        /\ UNCHANGED <<notTest, question_statistics, db_questions,
                       inserted_sessions, tasks, now>>

\* start_test that marks the questions it found before it answers 202
start_test_select_marking(p) ==
    LET r == requests[p]
        available == get_available_questions(AllQuestions, Document, User,
                                             r.total_questions)
    IN  /\ r.pc = "start_select"
        /\ IF ~available.ok
           THEN /\ requests' = [requests EXCEPT ![p] = IdleCall]
                /\ UNCHANGED <<tasks, db_questions>>
           ELSE IF available.needs_generation
           THEN /\ tasks' = Append(tasks, r.total_questions - Len(available.selected))
                /\ requests' = [requests EXCEPT ![p] = IdleCall]
                /\ db_questions' = [q \in DOMAIN db_questions |->
                       IF \E i \in 1..Len(available.selected) :
                              available.selected[i]._id = q
                       THEN SetFields(db_questions[q], [last_used_at |-> now])
                       ELSE db_questions[q]]
           ELSE /\ requests' = [requests EXCEPT ![p] =
                       [pc |-> "start_mark",
                        question_ids |-> [i \in 1..Len(available.selected) |->
                                             available.selected[i]._id]]]
                /\ UNCHANGED <<tasks, db_questions>>
        /\ UNCHANGED <<notTest, question_statistics, test_sessions,
                       inserted_sessions, now>>

\* get_available_questions; on needs_generation create_task for the shortfall
\* and answer 202; when the sort raises answer 500
start_test_select(p) ==
    LET r == requests[p]
        available == get_available_questions(AllQuestions, Document, User,
                                             r.total_questions)
    IN  /\ r.pc = "start_select"
        /\ IF ~available.ok
           THEN /\ requests' = [requests EXCEPT ![p] = IdleCall]
                /\ UNCHANGED tasks
           ELSE IF available.needs_generation
           THEN /\ tasks' = Append(tasks, r.total_questions - Len(available.selected))
                /\ requests' = [requests EXCEPT ![p] = IdleCall]
           ELSE /\ requests' = [requests EXCEPT ![p] =
                       [pc |-> "start_mark",
                        question_ids |-> [i \in 1..Len(available.selected) |->
                                             available.selected[i]._id]]]
                /\ UNCHANGED tasks
        /\ UNCHANGED <<notTest, question_statistics, db_questions, test_sessions,
                       inserted_sessions, now>>

mark_questions_used(question_ids) ==
    [q \in DOMAIN db_questions |->
        IF \E i \in 1..Len(question_ids) : question_ids[i] = q
        THEN SetFields(db_questions[q], [last_used_at |-> now])
        ELSE db_questions[q]]

start_test_mark(p) ==
    LET r == requests[p]
    IN  /\ r.pc = "start_mark"
        /\ db_questions' = mark_questions_used(r.question_ids)
        /\ now' = now + 1
        /\ requests' = [requests EXCEPT ![p] = [r EXCEPT !.pc = "start_insert"]]
        /\ UNCHANGED <<notTest, question_statistics, test_sessions,
                       inserted_sessions, tasks>>

NewSession(question_ids) ==
    [questions |-> question_ids,
     answers |-> [i \in 1..Len(question_ids) |->
                     [question_id |-> question_ids[i], status |-> "not_attempted"]],
     current_question_index |-> 0,
     status |-> "in_progress"]

start_test_insert(p) ==
    LET r == requests[p]
        sid == inserted_sessions + 1
    IN  /\ r.pc = "start_insert"
        /\ inserted_sessions' = sid
        /\ test_sessions' = [x \in DOMAIN test_sessions \cup {sid} |->
                                IF x = sid THEN NewSession(r.question_ids)
                                ELSE test_sessions[x]]
        /\ requests' = [requests EXCEPT ![p] = IdleCall]
        /\ UNCHANGED <<notTest, question_statistics, db_questions, tasks, now>>

\* submit_answer up to its await of the question: the session is found and
\* in progress (else 404 or 400, and nothing changes)
submit_answer_find_session(p, session_id, question_id, right_answer) ==
    /\ requests[p].pc = "idle"
    /\ TotalAttempts(question_statistics) + Cardinality(Submitting) < MaxSubmits
    /\ IF session_id \in DOMAIN test_sessions
          /\ test_sessions[session_id].status = "in_progress"
       THEN requests' = [requests EXCEPT ![p] =
                [pc |-> "submit_question",
                 session_id |-> session_id,
                 session |-> test_sessions[session_id],
                 question_id |-> question_id,
                 right_answer |-> right_answer]]
       ELSE UNCHANGED requests
    /\ UNCHANGED <<notTest, question_statistics, db_questions, test_sessions,
                   inserted_sessions, tasks, now>>

\* db.questions.find_one of answer_data.question_id (404 when there is none);
\* is_correct compares the answer with the question's correct_answer
submit_answer_find_question(p, time_taken) ==
    LET r == requests[p]
    IN  /\ r.pc = "submit_question"
        /\ requests' = [requests EXCEPT ![p] =
               IF r.question_id \in DOMAIN db_questions
               THEN [pc |-> "submit_stats_find",
                     session_id |-> r.session_id,
                     session |-> r.session,
                     question_id |-> r.question_id,
                     is_correct |-> r.right_answer,
                     time_taken |-> time_taken]
               ELSE IdleCall]
        /\ UNCHANGED <<notTest, question_statistics, db_questions, test_sessions,
                       inserted_sessions, tasks, now>>

\* update_question_stats: find_one
submit_answer_stats_find(p) ==
    LET r == requests[p]
    IN  /\ r.pc = "submit_stats_find"
        /\ requests' = [requests EXCEPT ![p] =
               SetFields(r,
                   [pc |-> "submit_stats_write",
                    stats_found |-> Matching(r.question_id) # {},
                    stats_doc |-> IF Matching(r.question_id) = {}
                                  THEN NewQuestionStatistics(r.question_id)
                                  ELSE question_statistics[FirstMatching(r.question_id)]])]
        /\ UNCHANGED <<notTest, question_statistics, db_questions, test_sessions,
                       inserted_sessions, tasks, now>>

\* update_question_stats: update_one or insert_one; a DuplicateKeyError of
\* insert_one ends submit_answer with a 500
submit_answer_stats_write(p) ==
    LET r == requests[p]
        stats == update_from_attempt(r.stats_doc, r.is_correct, r.time_taken)
        duplicate == ~r.stats_found /\ unique_index /\ Matching(r.question_id) # {}
        next == [pc |-> "submit_performance",
                 session_id |-> r.session_id,
                 session |-> r.session,
                 question_id |-> r.question_id,
                 is_correct |-> r.is_correct,
                 time_taken |-> r.time_taken]
    IN  /\ r.pc = "submit_stats_write"
        /\ question_statistics' =
              IF r.stats_found
              THEN IF Matching(r.question_id) = {} THEN question_statistics
                   ELSE [question_statistics EXCEPT ![FirstMatching(r.question_id)] = stats]
              ELSE IF duplicate THEN question_statistics
              ELSE Append(question_statistics, stats)
        /\ requests' = [requests EXCEPT ![p] = IF duplicate THEN IdleCall ELSE next]
        /\ UNCHANGED <<notTest, db_questions, test_sessions, inserted_sessions,
                       tasks, now>>

\* update_question_performance: find_one_and_update with $inc
submit_answer_performance(p) ==
    LET r == requests[p]
        q == db_questions[r.question_id]
        result_doc ==
            SetFields(q,
                [times_answered |-> Get(q, "times_answered", 0) + 1,
                 times_correct |-> Get(q, "times_correct", 0)
                                   + (IF r.is_correct THEN 1 ELSE 0)])
        mastered == /\ Get(result_doc, "times_correct", 0) >= 2
                    /\ ~Get(result_doc, "is_mastered", FALSE)
    IN  /\ r.pc = "submit_performance"
        /\ db_questions' = [db_questions EXCEPT ![r.question_id] = result_doc]
        /\ requests' = [requests EXCEPT ![p] =
               [r EXCEPT !.pc = IF mastered THEN "submit_mastered"
                                ELSE "submit_session"]]
        /\ UNCHANGED <<notTest, question_statistics, test_sessions,
                       inserted_sessions, tasks, now>>

\* update_question_performance: update_one with $set is_mastered
submit_answer_mastered(p) ==
    LET r == requests[p]
    IN  /\ r.pc = "submit_mastered"
        /\ db_questions' = [db_questions EXCEPT ![r.question_id] =
               SetFields(@, [is_mastered |-> TRUE])]
        /\ requests' = [requests EXCEPT ![p] = [r EXCEPT !.pc = "submit_session"]]
        /\ UNCHANGED <<notTest, question_statistics, test_sessions,
                       inserted_sessions, tasks, now>>

\* the answer goes to position current_question_index of the session as it
\* was read; update_one with $set of answers, index and, at the end, status
submit_answer_session(p) ==
    LET r == requests[p]
        current_index == r.session.current_question_index
        answer_update ==
            [question_id |-> r.question_id,
             is_correct |-> r.is_correct,
             time_taken |-> r.time_taken,
             status |-> IF r.is_correct THEN "correct" ELSE "wrong",
             changed_answer |-> FALSE,
             hesitation_count |-> 0]
        answers == [r.session.answers EXCEPT ![current_index + 1] = answer_update]
        next_index == current_index + 1
        is_complete == next_index >= Len(r.session.questions)
        update_data ==
            IF is_complete
            THEN [answers |-> answers, current_question_index |-> next_index,
                  status |-> "completed"]
            ELSE [answers |-> answers, current_question_index |-> next_index]
    IN  /\ r.pc = "submit_session"
        /\ test_sessions' =
              IF r.session_id \in DOMAIN test_sessions
              THEN [test_sessions EXCEPT ![r.session_id] = SetFields(@, update_data)]
              ELSE test_sessions
        /\ requests' = [requests EXCEPT ![p] = IdleCall]
        /\ UNCHANGED <<notTest, question_statistics, db_questions,
                       inserted_sessions, tasks, now>>

\* POST /generate: add_task(generate_questions_background, ...)
generate_questions(num_questions) ==
    /\ Len(tasks) + Cardinality(Starting) < MaxTasks
    /\ tasks' = Append(tasks, num_questions)
    /\ UNCHANGED <<notTest, question_statistics, db_questions, test_sessions,
                   inserted_sessions, requests, now>>

\* generate_questions_background: the collaborator returned a question, which
\* is inserted without tracking fields; the task ends with its last question
generate_questions_background_insert(i) ==
    LET stored == Cardinality(DOMAIN db_questions)
        id == QuestionOrder[stored + 1]
    IN  /\ i \in 1..Len(tasks)
        /\ stored < Len(QuestionOrder)
        /\ db_questions' = [q \in DOMAIN db_questions \cup {id} |->
               IF q = id
               THEN SetFields(NewQuestion(Document, User), [_id |-> id])
               ELSE db_questions[q]]
        /\ tasks' = IF tasks[i] > 1
                    THEN [tasks EXCEPT ![i] = @ - 1]
                    ELSE SubSeq(tasks, 1, i - 1) \o SubSeq(tasks, i + 1, Len(tasks))
        /\ UNCHANGED <<notTest, question_statistics, test_sessions,
                       inserted_sessions, requests, now>>

\* generate_questions_background: the collaborator raised or returned nothing;
\* the while loop goes round again
generate_questions_background_fails(i) ==
    /\ i \in 1..Len(tasks)
    /\ UNCHANGED vars

TrackingFields == {"is_mastered", "times_answered", "times_correct", "last_used_at"}

\* POST /fix-question-tracking-fields: update_many of the questions that
\* lack one of the tracking fields
fix_question_tracking_fields ==
    /\ db_questions' = [q \in DOMAIN db_questions |->
           IF \E f \in TrackingFields : f \notin DOMAIN db_questions[q]
           THEN SetFields(db_questions[q],
                    [is_mastered |-> FALSE, times_answered |-> 0,
                     times_correct |-> 0, last_used_at |-> None])
           ELSE db_questions[q]]
    /\ UNCHANGED <<notTest, question_statistics, test_sessions,
                   inserted_sessions, requests, tasks, now>>

InitTest ==
    /\ PureIdle
    /\ ReviewStoreIdle
    /\ StatsIdle
    /\ TestIdle

NextTest ==
    \/ \E p \in Callers, total_questions \in 1..MaxTotalQuestions :
          start_test_find_existing(p, total_questions)
    \/ \E p \in Callers : start_test_delete(p)
    \/ \E p \in Callers : start_test_select(p)
    \/ \E p \in Callers : start_test_mark(p)
    \/ \E p \in Callers : start_test_insert(p)
    \/ \E p \in Callers, session_id \in 1..MaxSessions, question_id \in QuestionIds,
          right_answer \in BOOLEAN :
          submit_answer_find_session(p, session_id, question_id, right_answer)
    \/ \E p \in Callers, time_taken \in SubmitTimes :
          submit_answer_find_question(p, time_taken)
    \/ \E p \in Callers : submit_answer_stats_find(p)
    \/ \E p \in Callers : submit_answer_stats_write(p)
    \/ \E p \in Callers : submit_answer_performance(p)
    \/ \E p \in Callers : submit_answer_mastered(p)
    \/ \E p \in Callers : submit_answer_session(p)
    \/ \E num_questions \in 1..MaxTotalQuestions : generate_questions(num_questions)
    \/ \E i \in 1..MaxTasks : generate_questions_background_insert(i)
    \/ \E i \in 1..MaxTasks : generate_questions_background_fails(i)
    \/ fix_question_tracking_fields

SpecTest == InitTest /\ [][NextTest]_vars

-----------------------------------------------------------------------------
(* Concurrent update_question_performance calls of                         *)
(* app/services/question_selection_service.py over db.questions: the        *)
(* find_one_and_update with $inc is one step, the update_one that sets       *)
(* is_mastered another.                                                      *)

\* counters of questions that are not mastered
UnmasteredCounters == {<<0, 0>>, <<1, 0>>, <<1, 1>>, <<2, 1>>}

UnmasteredDocs ==
    {NewQuestion(Document, User)}
        \cup {Tracked(Document, User, c) : c \in UnmasteredCounters}

InitPerformance ==
    /\ PureIdle
    /\ ReviewStoreIdle
    /\ StatsIdle
    /\ db_questions \in [{"q1"} -> UnmasteredDocs] \cup [QuestionIds -> UnmasteredDocs]
    /\ test_sessions = <<>>
    /\ inserted_sessions = 0
    /\ requests = [p \in Callers |-> IdleCall]
    /\ tasks = <<>>
    /\ now = 1

\* the threshold of mastery one too high
update_question_performance_inc_late(p, question_id, is_correct) ==
    /\ requests[p].pc = "idle"
    /\ IF question_id \in DOMAIN db_questions
       THEN LET q == db_questions[question_id]
                result_doc ==
                    SetFields(q,
                        [times_answered |-> Get(q, "times_answered", 0) + 1,
                         times_correct |-> Get(q, "times_correct", 0)
                                           + (IF is_correct THEN 1 ELSE 0)])
            IN  /\ Get(q, "times_answered", 0) < MaxTimesAnswered
                /\ db_questions' = [db_questions EXCEPT ![question_id] = result_doc]
                /\ requests' = [requests EXCEPT ![p] =
                       IF /\ Get(result_doc, "times_correct", 0) >= 3
                          /\ ~Get(result_doc, "is_mastered", FALSE)
                       THEN [pc |-> "performance_mastered", question_id |-> question_id]
                       ELSE IdleCall]
       ELSE UNCHANGED <<db_questions, requests>>
    /\ UNCHANGED <<notTest, question_statistics, test_sessions,
                   inserted_sessions, tasks, now>>

\* find_one_and_update with $inc, return_document=True; no document, no
\* second step
update_question_performance_inc(p, question_id, is_correct) ==
    /\ requests[p].pc = "idle"
    /\ IF question_id \in DOMAIN db_questions
       THEN LET q == db_questions[question_id]
                result_doc ==
                    SetFields(q,
                        [times_answered |-> Get(q, "times_answered", 0) + 1,
                         times_correct |-> Get(q, "times_correct", 0)
                                           + (IF is_correct THEN 1 ELSE 0)])
            IN  /\ Get(q, "times_answered", 0) < MaxTimesAnswered
                /\ db_questions' = [db_questions EXCEPT ![question_id] = result_doc]
                /\ requests' = [requests EXCEPT ![p] =
                       IF /\ Get(result_doc, "times_correct", 0) >= 2
                          /\ ~Get(result_doc, "is_mastered", FALSE)
                       THEN [pc |-> "performance_mastered", question_id |-> question_id]
                       ELSE IdleCall]
       ELSE UNCHANGED <<db_questions, requests>>
    /\ UNCHANGED <<notTest, question_statistics, test_sessions,
                   inserted_sessions, tasks, now>>

\* update_one with $set is_mastered
update_question_performance_set(p) ==
    LET r == requests[p]
    IN  /\ r.pc = "performance_mastered"
        /\ db_questions' = [db_questions EXCEPT ![r.question_id] =
               SetFields(@, [is_mastered |-> TRUE])]
        /\ requests' = [requests EXCEPT ![p] = IdleCall]
        /\ UNCHANGED <<notTest, question_statistics, test_sessions,
                       inserted_sessions, tasks, now>>

NextPerformance ==
    \/ \E p \in Callers, question_id \in QuestionIds, is_correct \in BOOLEAN :
          update_question_performance_inc(p, question_id, is_correct)
    \/ \E p \in Callers : update_question_performance_set(p)

SpecPerformance == InitPerformance /\ [][NextPerformance]_vars

-----------------------------------------------------------------------------
(* The background task generate_questions_background of                    *)
(* app/routes/questions.py on its own: tasks holds one record per task      *)
(* scheduled, with the document as its find_one returns it (None, or the     *)
(* number of its sections), the position of the for loop over the sections   *)
(* and the number of questions generated so far.  db.questions is kept in    *)
(* insertion order.  One step is one call of the generation collaborator     *)
(* with the insert_one calls that follow it.                                 *)

\* what generate_questions_from_context does when asked for one question: it
\* raises (None), or returns a list of 0, 1 or 2 questions
Outcomes == {None} \cup 0..2

ScheduledTasks ==
    [pc : {"find_document"},
     num_questions : 1..MaxTotalQuestions,
     document : {None} \cup 0..MaxSections]

InitGeneration ==
    /\ PureIdle
    /\ ReviewStoreIdle
    /\ StatsIdle
    /\ db_questions = <<>>
    /\ test_sessions = <<>>
    /\ inserted_sessions = 0
    /\ requests = [p \in Callers |-> IdleCall]
    /\ tasks \in UNION {[1..n -> ScheduledTasks] : n \in 1..MaxTasks}
    /\ now = 1

\* find_one of the document; the task returns when there is none or it has no
\* sections
generate_questions_background_find_document(i) ==
    /\ i \in 1..Len(tasks)
    /\ tasks[i].pc = "find_document"
    /\ tasks' = [tasks EXCEPT ![i] =
           IF @.document = None \/ @.document = 0
           THEN [pc |-> "done", num_questions |-> @.num_questions, generated |-> 0]
           ELSE [pc |-> "loop", num_questions |-> @.num_questions,
                 sections |-> @.document, section |-> 1, generated |-> 0]]
    /\ UNCHANGED <<notTest, question_statistics, db_questions, test_sessions,
                   inserted_sessions, requests, now>>

RECURSIVE Inserted(_, _)
Inserted(pool, n) ==
    IF n = 0 THEN pool
    ELSE Inserted(Append(pool, SetFields(NewQuestion(Document, User),
                                         [_id |-> Len(pool) + 1])),
                  n - 1)

\* one pass of the body of the for loop: the collaborator is called for the
\* current section; what it returns is inserted until num_questions are
\* generated; an exception is caught and the loop continues with the next
\* section, and the while loop starts the sections again as long as
\* len(generated_questions) < num_questions
generate_questions_background_call(i, outcome) ==
    /\ i \in 1..Len(tasks)
    /\ tasks[i].pc = "loop"
    /\ LET t == tasks[i]
           returned == IF outcome = None THEN 0 ELSE outcome
           saved == Min(returned, t.num_questions - t.generated)
           generated == t.generated + saved
       IN  /\ db_questions' = Inserted(db_questions, saved)
           /\ tasks' = [tasks EXCEPT ![i] =
                  IF generated >= t.num_questions
                  THEN [pc |-> "done", num_questions |-> t.num_questions,
                        generated |-> generated]
                  ELSE [t EXCEPT !.generated = generated,
                                 !.section = (t.section % t.sections) + 1]]
    /\ UNCHANGED <<notTest, question_statistics, test_sessions,
                   inserted_sessions, requests, now>>

generate_questions_background_step(i) ==
    \/ generate_questions_background_find_document(i)
    \/ \E outcome \in Outcomes : generate_questions_background_call(i, outcome)

NextGeneration ==
    \/ \E i \in 1..MaxTasks : generate_questions_background_find_document(i)
    \/ \E i \in 1..MaxTasks, outcome \in Outcomes :
          generate_questions_background_call(i, outcome)

SpecGeneration == InitGeneration /\ [][NextGeneration]_vars

\* the event loop runs every task that can take a step, and every call of the
\* collaborator comes back, with a result or an exception
SpecGenerationFair ==
    SpecGeneration /\ \A i \in 1..MaxTasks : WF_vars(generate_questions_background_step(i))

-----------------------------------------------------------------------------
(* Reviews from mistakes: create_reviews_from_mistakes of                   *)
(* app/services/spaced_repetition_service.py over one test session as       *)
(* start_test and submit_answer leave it.  db.reviews is kept in insertion  *)
(* order.                                                                   *)

\* the answer submit_answer stores (answer_update)
StoredAnswer(question_id, is_correct) ==
    [question_id |-> question_id,
     is_correct |-> is_correct,
     time_taken |-> 10,
     status |-> IF is_correct THEN "correct" ELSE "wrong",
     changed_answer |-> FALSE,
     hesitation_count |-> 0]

\* a session of question_ids whose first Len(corrects) questions are answered
AnsweredSession(question_ids, corrects) ==
    LET new == NewSession(question_ids)
    IN  [new EXCEPT
            !.answers = [i \in 1..Len(question_ids) |->
                            IF i <= Len(corrects)
                            THEN StoredAnswer(question_ids[i], corrects[i])
                            ELSE new.answers[i]],
            !.current_question_index = Len(corrects),
            !.status = IF Len(corrects) >= Len(question_ids)
                       THEN "completed" ELSE "in_progress"]

\* the question after mark_questions_used and the answers of that session
QuestionAfter(id, question_ids, corrects) ==
    LET new == SetFields(NewQuestion(Document, User), [_id |-> id])
        at == {i \in 1..Len(question_ids) : question_ids[i] = id}
        answered == {i \in at : i <= Len(corrects)}
    IN  IF at = {} THEN new
        ELSE IF answered = {} THEN SetFields(new, [last_used_at |-> 1])
        ELSE SetFields(new,
                 [last_used_at |-> 1,
                  times_answered |-> 1,
                  times_correct |-> IF \E i \in answered : corrects[i] THEN 1 ELSE 0])

SessionQuestionLists == {<<"q1">>, <<"q1", "q2">>}

InitMistakes ==
    /\ PureIdle
    /\ ReviewStoreIdle
    /\ unique_index = TRUE
    /\ stats_calls = [p \in Callers |-> IdleCall]
    /\ attempts = [q \in QuestionIds |-> [total |-> 0, correct |-> 0]]
    /\ \E question_ids \in SessionQuestionLists :
         \E corrects \in UNION {[1..k -> BOOLEAN] : k \in 0..Len(question_ids)} :
            /\ test_sessions = <<AnsweredSession(question_ids, corrects)>>
            /\ db_questions = [q \in QuestionIds |->
                                  QuestionAfter(q, question_ids, corrects)]
            /\ question_statistics =
                  [i \in 1..Len(corrects) |->
                      update_from_attempt(NewQuestionStatistics(question_ids[i]),
                                          corrects[i], 10)]
    /\ inserted_sessions = 1
    /\ requests = [p \in Callers |-> IdleCall]
    /\ tasks = <<>>
    /\ now = 2

\* the call returns reviews_created
Return(p, session_id, reviews_created) ==
    /\ calls' = [calls EXCEPT ![p] = IdleCall]
    /\ completed' = completed (+)
           SetToBag({[session_id |-> session_id, reviews_created |-> reviews_created]})

\* find_one of the session; the ids of the answers without a true "correct"
create_reviews_from_mistakes_find_session(p, user_id, session_id) ==
    /\ calls[p].pc = "idle"
    /\ Started < MaxMistakeCalls
    /\ IF session_id \notin DOMAIN test_sessions
       THEN Return(p, session_id, 0)
       ELSE LET answers == test_sessions[session_id].answers
                incorrect == SelectSeq(answers, LAMBDA ans : ~Get(ans, "correct", FALSE))
                incorrect_question_ids ==
                    [i \in 1..Len(incorrect) |-> incorrect[i].question_id]
            IN  IF incorrect_question_ids = <<>>
                THEN Return(p, session_id, 0)
                ELSE /\ calls' = [calls EXCEPT ![p] =
                            [pc |-> "mistakes_questions",
                             user_id |-> user_id,
                             session_id |-> session_id,
                             incorrect_question_ids |-> incorrect_question_ids]]
                     /\ UNCHANGED completed
    /\ UNCHANGED <<notReview, reviews>>

\* db.questions.find of those ids
create_reviews_from_mistakes_find_questions(p) ==
    LET c == calls[p]
        found == SelectSeq(AllQuestions,
                     LAMBDA q : \E i \in 1..Len(c.incorrect_question_ids) :
                                    c.incorrect_question_ids[i] = q._id)
    IN  /\ c.pc = "mistakes_questions"
        /\ IF found = <<>>
           THEN Return(p, c.session_id, 0)
           ELSE /\ calls' = [calls EXCEPT ![p] =
                       [pc |-> "mistakes_existing",
                        user_id |-> c.user_id,
                        session_id |-> c.session_id,
                        questions |-> found,
                        index |-> 1,
                        reviews_created |-> 0]]
                /\ UNCHANGED completed
        /\ UNCHANGED <<notReview, reviews>>

\* the for loop moves to the next question, or the call returns
NextQuestion(p, reviews_created) ==
    LET c == calls[p]
    IN  IF c.index >= Len(c.questions)
        THEN Return(p, c.session_id, reviews_created)
        ELSE /\ calls' = [calls EXCEPT ![p] =
                    [c EXCEPT !.pc = "mistakes_existing",
                              !.index = @ + 1,
                              !.reviews_created = reviews_created]]
             /\ UNCHANGED completed

\* db.reviews.find_one of the user's review of the question
create_reviews_from_mistakes_find_existing(p) ==
    LET c == calls[p]
        question_id == c.questions[c.index]._id
        existing == \E r \in DOMAIN reviews :
                        /\ reviews[r].user_id = c.user_id
                        /\ reviews[r].question_id = question_id
    IN  /\ c.pc = "mistakes_existing"
        /\ IF existing
           THEN NextQuestion(p, c.reviews_created)
           ELSE /\ calls' = [calls EXCEPT ![p] = [c EXCEPT !.pc = "mistakes_create"]]
                /\ UNCHANGED completed
        /\ UNCHANGED <<notReview, reviews>>

\* create_review: insert_one
create_reviews_from_mistakes_create(p, today) ==
    LET c == calls[p]
        question_id == c.questions[c.index]._id
    IN  /\ c.pc = "mistakes_create"
        /\ reviews' = Append(reviews,
               SetFields(NewReview(today),
                   [user_id |-> c.user_id, question_id |-> question_id]))
        /\ NextQuestion(p, c.reviews_created + 1)
        /\ UNCHANGED notReview

NextMistakes ==
    \/ \E p \in Callers, session_id \in 1..2 :
          create_reviews_from_mistakes_find_session(p, User, session_id)
    \/ \E p \in Callers : create_reviews_from_mistakes_find_questions(p)
    \/ \E p \in Callers : create_reviews_from_mistakes_find_existing(p)
    \/ \E p \in Callers, today \in Dates : create_reviews_from_mistakes_create(p, today)

SpecMistakes == InitMistakes /\ [][NextMistakes]_vars

-----------------------------------------------------------------------------
(* Session state gating: submit_answer, finish_test_early and               *)
(* get_test_results of app/routes/tests.py over one session as start_test    *)
(* and submit_answer leave it.  result holds the last response of            *)
(* get_test_results.                                                         *)

\* a question id that db.questions does not hold
MissingQuestionId == "q3"

\* finish_test_early up to its update_one: 404 when the session is missing,
\* "already_completed" when it is completed, and nothing changes
finish_test_early_find_session(p, session_id) ==
    /\ requests[p].pc = "idle"
    /\ IF session_id \in DOMAIN test_sessions
          /\ test_sessions[session_id].status # "completed"
       THEN requests' = [requests EXCEPT ![p] =
                [pc |-> "finish_update",
                 session_id |-> session_id,
                 session |-> test_sessions[session_id]]]
       ELSE UNCHANGED requests
    /\ UNCHANGED <<notTest, question_statistics, db_questions, test_sessions,
                   inserted_sessions, tasks, now>>

\* the answers not attempted from current_question_index on, of the session
\* as it was read, become skipped; update_one with $set of status and answers
finish_test_early_update(p) ==
    LET r == requests[p]
        current_index == r.session.current_question_index
        answers == [i \in 1..Len(r.session.answers) |->
                       IF i > current_index
                          /\ r.session.answers[i].status = "not_attempted"
                       THEN SetFields(r.session.answers[i], [status |-> "skipped"])
                       ELSE r.session.answers[i]]
    IN  /\ r.pc = "finish_update"
        /\ test_sessions' =
              IF r.session_id \in DOMAIN test_sessions
              THEN [test_sessions EXCEPT ![r.session_id] =
                       SetFields(@, [status |-> "completed", answers |-> answers])]
              ELSE test_sessions
        /\ requests' = [requests EXCEPT ![p] = IdleCall]
        /\ UNCHANGED <<notTest, question_statistics, db_questions,
                       inserted_sessions, tasks, now>>

\* the number of answers of a status
CountStatus(answers, status) ==
    Cardinality({i \in 1..Len(answers) : answers[i].status = status})

\* get_test_results: 404 without the session, 400 unless it is completed,
\* else the score counted from the answers; it writes nothing
get_test_results(p, session_id) ==
    /\ requests[p].pc = "idle"
    /\ result' =
          IF session_id \notin DOMAIN test_sessions
          THEN <<[status_code |-> 404]>>
          ELSE IF test_sessions[session_id].status # "completed"
          THEN <<[status_code |-> 400]>>
          ELSE LET answers == test_sessions[session_id].answers
               IN  <<[status_code |-> 200,
                      session_id |-> session_id,
                      total_questions |-> Len(answers),
                      correct |-> CountStatus(answers, "correct"),
                      wrong |-> CountStatus(answers, "wrong"),
                      skipped |-> CountStatus(answers, "skipped"),
                      not_attempted |-> CountStatus(answers, "not_attempted")]>>
    /\ UNCHANGED <<args, reviewVars, statsVars, testVars>>

NextGating ==
    \/ \E p \in Callers, session_id \in 1..2,
          question_id \in QuestionIds \cup {MissingQuestionId},
          right_answer \in BOOLEAN :
          submit_answer_find_session(p, session_id, question_id, right_answer)
    \/ \E p \in Callers, time_taken \in SubmitTimes :
          submit_answer_find_question(p, time_taken)
    \/ \E p \in Callers : submit_answer_stats_find(p)
    \/ \E p \in Callers : submit_answer_stats_write(p)
    \/ \E p \in Callers : submit_answer_performance(p)
    \/ \E p \in Callers : submit_answer_mastered(p)
    \/ \E p \in Callers : submit_answer_session(p)
    \/ \E p \in Callers, session_id \in 1..2 :
          finish_test_early_find_session(p, session_id)
    \/ \E p \in Callers : finish_test_early_update(p)
    \/ \E p \in Callers, session_id \in 1..2 : get_test_results(p, session_id)

SpecGating == InitMistakes /\ [][NextGating]_vars

-----------------------------------------------------------------------------
(* Exam readiness: AdvancedAnalyticsService.calculate_exam_readiness as a   *)
(* function of what its queries return: the completed sessions of the user   *)
(* for the document and the topic of every question of the document.         *)
(* Fractions are exact: [num, den] in lowest terms with den > 0.             *)

RECURSIVE GCD(_, _)
GCD(a, b) == IF b = 0 THEN a ELSE GCD(b, a % b)

Abs(n) == IF n < 0 THEN 0 - n ELSE n

Rat(n, d) ==
    LET g == GCD(Abs(n), d)
    IN  IF n = 0 THEN [num |-> 0, den |-> 1] ELSE [num |-> n \div g, den |-> d \div g]

RatAdd(a, b) == Rat(a.num * b.den + b.num * a.den, a.den * b.den)
RatSub(a, b) == Rat(a.num * b.den - b.num * a.den, a.den * b.den)
RatMul(a, b) == Rat(a.num * b.num, a.den * b.den)
RatLess(a, b) == a.num * b.den < b.num * a.den
RatMax(a, b) == IF RatLess(a, b) THEN b ELSE a

RECURSIVE RatSum(_)
RatSum(values) ==
    IF values = <<>> THEN Rat(0, 1) ELSE RatAdd(Head(values), RatSum(Tail(values)))

\* statistics.mean
Mean(values) == RatMul(RatSum(values), Rat(1, Len(values)))

\* statistics.variance: the sample variance
Variance(values) ==
    LET m == Mean(values)
        squares == [i \in 1..Len(values) |->
                       RatMul(RatSub(values[i], m), RatSub(values[i], m))]
    IN  RatMul(RatSum(squares), Rat(1, Len(values) - 1))

RECURSIVE Total(_)
Total(numbers) == IF numbers = <<>> THEN 0 ELSE Head(numbers) + Total(Tail(numbers))

\* the set s as a sequence
RECURSIVE SetToSeq(_)
SetToSeq(set) ==
    IF set = {} THEN <<>>
    ELSE LET x == CHOOSE y \in set : TRUE
         IN  <<x>> \o SetToSeq(set \ {x})

\* correct and total of the answers of a session whose question is one of
\* the session's questions of the topic
topic_stats(session, topic, topic_of) ==
    LET question_id_set == {session.questions[i] : i \in 1..Len(session.questions)}
                               \cap {q \in DOMAIN topic_of : topic_of[q] = topic}
        hits == {i \in 1..Len(session.answers) :
                    session.answers[i].question_id \in question_id_set}
    IN  [correct |-> Cardinality({i \in hits :
                         Get(session.answers[i], "status", None) = "correct"}),
         total |-> Cardinality(hits)]

\* the mastery of the topic in each session that has an answer of it
mastery_values(sessions, topic, topic_of) ==
    LET with == SelectSeq(sessions,
                    LAMBDA session : topic_stats(session, topic, topic_of).total > 0)
    IN  [i \in 1..Len(with) |->
            Rat(topic_stats(with[i], topic, topic_of).correct,
                topic_stats(with[i], topic, topic_of).total)]

_default_readiness ==
    [overall_score |-> Rat(0, 1),
     mastery_score |-> Rat(0, 1),
     consistency_score |-> Rat(0, 1),
     confidence_score |-> Rat(0, 1),
     coverage_score |-> Rat(0, 1),
     estimated_study_hours |-> 20,
     readiness_level |-> "Not Started"]

\* int(max(0, 90 - overall_score) * 0.5)
estimated_study_hours(overall_score) ==
    LET score_gap == RatMax(Rat(0, 1), RatSub(Rat(90, 1), overall_score))
        half == RatMul(score_gap, Rat(1, 2))
    IN  half.num \div half.den

\* the scores before the rounding to one decimal of the response
calculate_exam_readiness(sessions, topic_of) ==
    IF sessions = <<>> THEN _default_readiness
    ELSE
    LET all_topics == {topic_of[q] : q \in DOMAIN topic_of}
        topics == SetToSeq(all_topics)
        topic_masteries ==
            [i \in 1..Len(topics) |->
                LET values == mastery_values(sessions, topics[i], topic_of)
                IN  IF values # <<>> THEN Mean(values) ELSE Rat(0, 1)]
        topic_variances ==
            [i \in 1..Len(topics) |->
                LET values == mastery_values(sessions, topics[i], topic_of)
                IN  IF Len(values) > 1 THEN Variance(values) ELSE Rat(0, 1)]
        mastery_score == IF topics # <<>> THEN Mean(topic_masteries) ELSE Rat(0, 1)
        avg_variance == IF topics # <<>> THEN Mean(topic_variances) ELSE Rat(0, 1)
        consistency_score ==
            RatMax(Rat(0, 1), RatSub(Rat(1, 1), RatMul(avg_variance, Rat(2, 1))))
        answered == [k \in 1..Len(sessions) |->
                        {i \in 1..Len(sessions[k].answers) :
                            Get(sessions[k].answers[i], "status", None)
                                \in {"correct", "wrong"}}]
        total_answers == Total([k \in 1..Len(sessions) |-> Cardinality(answered[k])])
        total_hesitation ==
            Total([k \in 1..Len(sessions) |->
                      Total([i \in 1..Len(sessions[k].answers) |->
                                IF i \in answered[k]
                                THEN Get(sessions[k].answers[i], "hesitation_count", 0)
                                ELSE 0])])
        avg_hesitation == IF total_answers > 0 THEN Rat(total_hesitation, total_answers)
                          ELSE Rat(0, 1)
        confidence_score ==
            RatMax(Rat(0, 1), RatSub(Rat(1, 1), RatMul(avg_hesitation, Rat(1, 5))))
        practiced_topics ==
            Cardinality({i \in 1..Len(topics) : RatLess(Rat(0, 1), topic_masteries[i])})
        coverage_score == IF topics # <<>> THEN Rat(practiced_topics, Len(topics))
                          ELSE Rat(0, 1)
        overall_score ==
            RatSum(<<RatMul(mastery_score, Rat(40, 1)),
                     RatMul(consistency_score, Rat(25, 1)),
                     RatMul(confidence_score, Rat(20, 1)),
                     RatMul(coverage_score, Rat(15, 1))>>)
    IN  [overall_score |-> overall_score,
         mastery_score |-> mastery_score,
         consistency_score |-> consistency_score,
         confidence_score |-> confidence_score,
         coverage_score |-> coverage_score,
         estimated_study_hours |-> estimated_study_hours(overall_score),
         readiness_level |->
             IF ~RatLess(overall_score, Rat(85, 1)) THEN "Ready"
             ELSE IF ~RatLess(overall_score, Rat(70, 1)) THEN "Almost Ready"
             ELSE "Needs Work"]

\* a completed session: every answer is correct, wrong (submit_answer) or
\* skipped (finish_test_early)
CompletedSessions ==
    UNION {{[questions |-> question_ids,
             answers |-> [i \in 1..Len(question_ids) |->
                             IF statuses[i] = "skipped"
                             THEN [question_id |-> question_ids[i], status |-> "skipped"]
                             ELSE StoredAnswer(question_ids[i], statuses[i] = "correct")],
             status |-> "completed"] :
               statuses \in [1..Len(question_ids) -> {"correct", "wrong", "skipped"}]} :
           question_ids \in {<<"q1">>, <<"q1", "q2">>}}

InitReadiness ==
    /\ args \in [sessions : UNION {[1..n -> CompletedSessions] : n \in 0..MaxCompleted},
                 topic_of : [QuestionIds -> Topics]]
    /\ result = NoResult
    /\ ReviewStoreIdle
    /\ TestIdle
    /\ StatsIdle

CallCalculateExamReadiness ==
    /\ result = NoResult
    /\ result' = <<calculate_exam_readiness(args.sessions, args.topic_of)>>
    /\ UNCHANGED <<args, notPure>>

NextReadiness == CallCalculateExamReadiness

SpecReadiness == InitReadiness /\ [][NextReadiness]_vars

(* the study hours as a function of the overall score, in tenths *)

InitStudyHours ==
    /\ args \in 0..MaxOverallScore
    /\ result = NoResult
    /\ ReviewStoreIdle
    /\ TestIdle
    /\ StatsIdle

CallEstimatedStudyHours ==
    /\ result = NoResult
    /\ result' = <<estimated_study_hours(Rat(args, 10))>>
    /\ UNCHANGED <<args, notPure>>

NextStudyHours == CallEstimatedStudyHours

SpecStudyHours == InitStudyHours /\ [][NextStudyHours]_vars

-----------------------------------------------------------------------------
(* The due queue: SpacedRepetitionService.get_due_reviews as a function of  *)
(* db.reviews, the time of the call (in days) and its arguments.  Priorities *)
(* are in tenths.                                                            *)

\* cursor.sort("next_review_date", 1): documents of one date stay in natural
\* order
RECURSIVE SortByDate(_, _)
SortByDate(sorted, rest) ==
    IF rest = <<>>
    THEN sorted
    ELSE LET r == rest[1]
             ahead == Cardinality({i \in 1..Len(sorted) :
                          sorted[i].next_review_date <= r.next_review_date})
         IN  SortByDate(SubSeq(sorted, 1, ahead) \o <<r>>
                            \o SubSeq(sorted, ahead + 1, Len(sorted)),
                        Tail(rest))

\* queue_items.sort(key=priority, reverse=True): stable
RECURSIVE SortQueue(_, _)
SortQueue(sorted, rest) ==
    IF rest = <<>>
    THEN sorted
    ELSE LET r == rest[1]
             ahead == Cardinality({i \in 1..Len(sorted) :
                          sorted[i].priority >= r.priority})
         IN  SortQueue(SubSeq(sorted, 1, ahead) \o <<r>>
                           \o SubSeq(sorted, ahead + 1, Len(sorted)),
                       Tail(rest))

\* days_overdue * 2 + (3.0 - ease_factor) * 10 + repetitions * 0.5, in tenths
ReviewPriority(review, today) ==
    (today - review.next_review_date) * 20 + (300 - review.ease_factor)
        + review.repetitions * 5

get_due_reviews(stored, user_id, today, limit) ==
    LET matching == SelectSeq(stored,
                        LAMBDA review : /\ review.user_id = user_id
                                        /\ review.next_review_date <= today)
        found == Take(SortByDate(<<>>, matching), limit)
        queue_items ==
            [i \in 1..Len(found) |->
                [review_id |-> found[i]._id,
                 next_review_date |-> found[i].next_review_date,
                 days_overdue |-> Max(0, today - found[i].next_review_date),
                 priority |-> ReviewPriority(found[i], today)]]
    IN  SortQueue(<<>>, queue_items)

Today == 2

\* review items as update_review leaves them
StoredReviews ==
    [user_id : {User, "u2"},
     next_review_date : 0..3,
     ease_factor : {MinEaseFactor, 250},
     repetitions : {0, 3}]

InitDue ==
    /\ \E n \in 0..MaxDue :
          \E docs \in [1..n -> StoredReviews] :
             \E limit \in 1..MaxLimit :
                args = [reviews |-> [i \in 1..n |-> SetFields(docs[i], [_id |-> i])],
                        limit |-> limit]
    /\ result = NoResult
    /\ ReviewStoreIdle
    /\ TestIdle
    /\ StatsIdle

CallGetDueReviews ==
    /\ result = NoResult
    /\ result' = <<get_due_reviews(args.reviews, User, Today, args.limit)>>
    /\ UNCHANGED <<args, notPure>>

NextDue == CallGetDueReviews

SpecDue == InitDue /\ [][NextDue]_vars

-----------------------------------------------------------------------------
(* The answers of a session under submit_answer, finish_test_early and      *)
(* mark_question of app/routes/tests.py                                      *)

\* the first answer of the question gets the marks
RECURSIVE Marked(_, _, _, _)
Marked(answers, question_id, marked_tricky, marked_review) ==
    IF answers = <<>> THEN <<>>
    ELSE IF Head(answers).question_id = question_id
    THEN <<SetFields(Head(answers), [marked_tricky |-> marked_tricky,
                                     marked_review |-> marked_review])>>
             \o Tail(answers)
    ELSE <<Head(answers)>> \o Marked(Tail(answers), question_id, marked_tricky,
                                     marked_review)

\* mark_question up to its update_one: 404 when the session is missing; the
\* status of the session is not looked at
mark_question_find_session(p, session_id, question_id, marked_tricky, marked_review) ==
    /\ requests[p].pc = "idle"
    /\ IF session_id \in DOMAIN test_sessions
       THEN requests' = [requests EXCEPT ![p] =
                [pc |-> "mark_update",
                 session_id |-> session_id,
                 answers |-> Marked(test_sessions[session_id].answers, question_id,
                                    marked_tricky, marked_review)]]
       ELSE UNCHANGED requests
    /\ UNCHANGED <<notTest, question_statistics, db_questions, test_sessions,
                   inserted_sessions, tasks, now>>

\* update_one with $set of the answers as they were read, with the marks
mark_question_update(p) ==
    LET r == requests[p]
    IN  /\ r.pc = "mark_update"
        /\ test_sessions' =
              IF r.session_id \in DOMAIN test_sessions
              THEN [test_sessions EXCEPT ![r.session_id] =
                       SetFields(@, [answers |-> r.answers])]
              ELSE test_sessions
        /\ requests' = [requests EXCEPT ![p] = IdleCall]
        /\ UNCHANGED <<notTest, question_statistics, db_questions,
                       inserted_sessions, tasks, now>>

NextAnswers ==
    \/ \E p \in Callers, session_id \in 1..2, question_id \in QuestionIds,
          right_answer \in BOOLEAN :
          submit_answer_find_session(p, session_id, question_id, right_answer)
    \/ \E p \in Callers, time_taken \in SubmitTimes :
          submit_answer_find_question(p, time_taken)
    \/ \E p \in Callers : submit_answer_stats_find(p)
    \/ \E p \in Callers : submit_answer_stats_write(p)
    \/ \E p \in Callers : submit_answer_performance(p)
    \/ \E p \in Callers : submit_answer_mastered(p)
    \/ \E p \in Callers : submit_answer_session(p)
    \/ \E p \in Callers, session_id \in 1..2 :
          finish_test_early_find_session(p, session_id)
    \/ \E p \in Callers : finish_test_early_update(p)
    \/ \E p \in Callers, session_id \in 1..2, question_id \in QuestionIds :
          mark_question_find_session(p, session_id, question_id, TRUE, FALSE)
    \/ \E p \in Callers : mark_question_update(p)

SpecAnswers == InitMistakes /\ [][NextAnswers]_vars

-----------------------------------------------------------------------------
(* submit_answer requests alone, over one session as start_test and         *)
(* submit_answer leave it                                                    *)

NextSubmit ==
    \/ \E p \in Callers, session_id \in 1..2, question_id \in QuestionIds,
          right_answer \in BOOLEAN :
          submit_answer_find_session(p, session_id, question_id, right_answer)
    \/ \E p \in Callers, time_taken \in SubmitTimes :
          submit_answer_find_question(p, time_taken)
    \/ \E p \in Callers : submit_answer_stats_find(p)
    \/ \E p \in Callers : submit_answer_stats_write(p)
    \/ \E p \in Callers : submit_answer_performance(p)
    \/ \E p \in Callers : submit_answer_mastered(p)
    \/ \E p \in Callers : submit_answer_session(p)

SpecSubmit == InitMistakes /\ [][NextSubmit]_vars

-----------------------------------------------------------------------------
(* POST /sessions/{session_id}/reviews/{review_id}: submit_review_response.  *)
(* Review items carry the user_id of their owner; a review session carries   *)
(* its user_id and the review_ids that create_review_session put in it.      *)
(* average_quality of a session is an exact rational.                        *)

Users == {"u1", "u2"}
OwnedReviewIds == {"r1", "r2", "r3"}
ReviewSessionIds == 1..2
MissingReviewSessionId == 3
ResponseQualities == {1, 4}

OwnedReview(user_id) == SetFields(NewReview(Today - 1), [user_id |-> user_id])

\* ReviewSession(...) as create_review_session inserts it
NewReviewSession(user_id, review_ids) ==
    [user_id |-> user_id,
     review_ids |-> review_ids,
     total_reviews |-> Len(review_ids),
     completed_reviews |-> 0,
     average_quality |-> Rat(0, 1)]

\* r1 and r3 are reviews of u1, r2 is a review of u2; session 1 is a session
\* of u1 holding r1, with or without r3, session 2 a session of u2 holding r2
InitOwnership ==
    /\ PureIdle
    /\ StatsIdle
    /\ TestIdle
    /\ calls = [p \in Callers |-> IdleCall]
    /\ completed = EmptyBag
    /\ reviews = [rid \in OwnedReviewIds |->
                     OwnedReview(IF rid = "r2" THEN "u2" ELSE "u1")]
    /\ \E review_ids \in {<<"r1">>, <<"r1", "r3">>} :
          review_sessions = [sid \in ReviewSessionIds |->
              IF sid = 1 THEN NewReviewSession("u1", review_ids)
              ELSE NewReviewSession("u2", <<"r2">>)]

\* submit_review_response up to its await of update_review: the session is
\* looked up by _id and user_id, else 404 and nothing changes
submit_review_response_find_session(p, user_id, session_id, review_id, quality, correct) ==
    /\ calls[p].pc = "idle"
    /\ Started < MaxReviewResponses
    /\ IF /\ session_id \in DOMAIN review_sessions
          /\ review_sessions[session_id].user_id = user_id
       THEN calls' = [calls EXCEPT ![p] =
                [pc |-> "session_found", user_id |-> user_id,
                 session_id |-> session_id, review_id |-> review_id,
                 quality |-> quality, correct |-> correct,
                 session |-> review_sessions[session_id]]]
       ELSE UNCHANGED calls
    /\ UNCHANGED <<pureVars, statsVars, testVars, reviews, completed, review_sessions>>

\* update_review: find_one of the review by _id alone, or ValueError
submit_review_response_find_review(p) ==
    LET c == calls[p]
    IN  /\ c.pc = "session_found"
        /\ IF c.review_id \in DOMAIN reviews
           THEN calls' = [calls EXCEPT ![p] =
                    SetFields(c, [pc |-> "review_found", review |-> reviews[c.review_id]])]
           ELSE calls' = [calls EXCEPT ![p] = IdleCall]
        /\ UNCHANGED <<pureVars, statsVars, testVars, reviews, completed, review_sessions>>

\* update_review: the SM-2 computation and update_one by _id, which $sets
\* every field of the copy but question_id and user_id
submit_review_response_save(p, today) ==
    LET c == calls[p]
    IN  /\ c.pc = "review_found"
        /\ reviews' = [reviews EXCEPT ![c.review_id] =
               SetFields(@, UpdatedReview(c.review, c.quality, c.correct, today))]
        /\ completed' = completed (+)
               SetToBag({[quality |-> c.quality, correct |-> c.correct]})
        /\ calls' = [calls EXCEPT ![p] = [c EXCEPT !.pc = "session_update"]]
        /\ UNCHANGED <<pureVars, statsVars, testVars, review_sessions>>

\* update_one of the session: $inc completed_reviews, $set average_quality
\* computed from the session as it was read
submit_review_response_session(p) ==
    LET c == calls[p]
        read == c.session.completed_reviews
        average_quality ==
            RatMul(RatAdd(RatMul(c.session.average_quality, Rat(read, 1)),
                          Rat(c.quality, 1)),
                   Rat(1, read + 1))
    IN  /\ c.pc = "session_update"
        /\ review_sessions' = [review_sessions EXCEPT ![c.session_id] =
               SetFields(@, [completed_reviews |-> @.completed_reviews + 1,
                             average_quality |-> average_quality])]
        /\ calls' = [calls EXCEPT ![p] = IdleCall]
        /\ UNCHANGED <<pureVars, statsVars, testVars, reviews, completed>>

NextOwnership ==
    \/ \E p \in Callers, user_id \in Users,
          session_id \in ReviewSessionIds \cup {MissingReviewSessionId},
          review_id \in OwnedReviewIds \cup {MissingReviewId},
          quality \in ResponseQualities, correct \in BOOLEAN :
          submit_review_response_find_session(p, user_id, session_id, review_id,
                                              quality, correct)
    \/ \E p \in Callers : submit_review_response_find_review(p)
    \/ \E p \in Callers : submit_review_response_save(p, Today)
    \/ \E p \in Callers : submit_review_response_session(p)

SpecOwnership == InitOwnership /\ [][NextOwnership]_vars

-----------------------------------------------------------------------------
(* Properties of calculate_next_review *)

\* C1: for every prior (interval, repetitions, ease_factor) and every quality
\* below 3, calculate_next_review returns repetitions 0 and interval 1.
C1_ResetBelowThree ==
    (result # NoResult /\ args.quality < 3)
        => (result[1].repetitions = 0 /\ result[1].interval = 1)

\* a well-advanced item (third repetition, a week's interval) is reset by quality 2
C1_Witness ==
    /\ result # NoResult
    /\ args.quality = 2
    /\ args.repetitions = 3
    /\ args.interval = 7
    /\ result[1].repetitions = 0

-----------------------------------------------------------------------------
(* Properties of the review store *)

AllReturned == \A p \in Callers : calls[p].pc = "idle"

SM2State(review) ==
    [interval |-> review.interval,
     repetitions |-> review.repetitions,
     ease_factor |-> review.ease_factor]

\* the SM-2 states that applying the responses of a bag one after another,
\* in any order, leads to
RECURSIVE SerialOutcomes(_, _)
SerialOutcomes(sm2, responses) ==
    IF BagToSet(responses) = {} THEN {sm2}
    ELSE UNION { SerialOutcomes(
                     calculate_next_review(sm2.interval, sm2.repetitions,
                                           sm2.ease_factor, r.quality),
                     responses (-) SetToBag({r})) : r \in BagToSet(responses) }

\* C2: from create_review on, whatever update_review and reschedule_review
\* calls follow, every stored review has ease_factor >= 1.3, interval >= 1
\* and repetitions >= 0.
C2_ReviewItemInvariant ==
    \A rid \in DOMAIN reviews :
        /\ reviews[rid].ease_factor >= 130
        /\ reviews[rid].interval >= 1
        /\ reviews[rid].repetitions >= 0

\* a rescheduled item whose ease factor two failed reviews drove to the floor
C2_Witness ==
    \E rid \in DOMAIN reviews :
        /\ reviews[rid].total_reviews >= 2
        /\ reviews[rid].ease_factor = 130
        /\ reviews[rid].next_review_date = 30

\* C4: once every update_review call has returned, total_reviews is the
\* number of responses submitted and the stored (interval, repetitions,
\* ease_factor) is what applying them in some serial order gives.
C4_UpdatesAreAtomic ==
    AllReturned =>
        \A rid \in DOMAIN reviews :
            /\ reviews[rid].total_reviews = BagCardinality(completed)
            /\ SM2State(reviews[rid]) \in
                   SerialOutcomes(SM2State(NewReview(0)), completed)

-----------------------------------------------------------------------------
(* Properties of the question statistics *)

AllStatsReturned == \A p \in Callers : stats_calls[p].pc = "idle"

\* C3: once every update_question_stats call on a question has ended, the
\* question has exactly one statistics record, whose total_attempts is the
\* number of calls and whose correct_attempts is the number of correct ones.
C3_StatsAreAtomic ==
    AllStatsReturned =>
        \A q \in QuestionIds :
            attempts[q].total > 0 =>
                /\ Cardinality(Matching(q)) = 1
                /\ \A i \in Matching(q) :
                      /\ question_statistics[i].total_attempts = attempts[q].total
                      /\ question_statistics[i].correct_attempts = attempts[q].correct

-----------------------------------------------------------------------------
(* Properties of the question selection *)

TimesAnswered(q) == Get(q, "times_answered", 0)
TimesCorrect(q) == Get(q, "times_correct", 0)

NeverAnswered(q) == TimesAnswered(q) = 0
AnsweredWrong(q) == TimesCorrect(q) < TimesAnswered(q)
Mastered(q) == TimesCorrect(q) >= 2 /\ Get(q, "is_mastered", FALSE)
MasteredNeverWrong(q) == Mastered(q) /\ TimesCorrect(q) = TimesAnswered(q)

Tier(q) ==
    CASE TimesAnswered(q) = 0 -> 0
      [] TimesAnswered(q) > 0 /\ TimesCorrect(q) < TimesAnswered(q) -> 1
      [] TimesAnswered(q) > 0 /\ TimesCorrect(q) = TimesAnswered(q)
            /\ TimesCorrect(q) = 1 -> 2
      [] OTHER -> 3

StrictlyBefore(q1, q2) ==
    \/ Tier(q1) < Tier(q2)
    \/ /\ Tier(q1) = Tier(q2)
       /\ Get(q1, "last_used_at", DatetimeMin) < Get(q2, "last_used_at", DatetimeMin)

Eligible(q) ==
    /\ q.document_id = Document
    /\ q.user_id = User
    /\ ("is_mastered" \notin DOMAIN q \/ q.is_mastered = FALSE)

Count(list, q) == Cardinality({i \in 1..Len(list) : list[i] = q})

-----------------------------------------------------------------------------
(* Properties of the cognitive scorer *)

ScoreFields ==
    {"guessing_score", "confusion_score", "avoidance_score",
     "knowledge_gap_score", "confidence_score"}

-----------------------------------------------------------------------------
(* Properties of the topic mastery *)

LessEq(s1, s2) == s1.num * s2.den <= s2.num * s1.den

FixedDifficulty(history) ==
    \A i, j \in 1..Len(history) : history[i].difficulty = history[j].difficulty

AllCorrect(history) == \A i \in 1..Len(history) : history[i].correct
AllWrong(history) == \A i \in 1..Len(history) : ~history[i].correct

\* C9: _calculate_weighted_mastery returns a value in [0, 1] for every list of
\* attempts with difficulties in [0, 1]; with a fixed difficulty, appending a
\* correct attempt to an all-correct history never decreases the score and
\* appending a wrong attempt to an all-wrong history never increases it.
C9_MasteryBoundsAndMonotonicity ==
    /\ [](result # NoResult =>
            /\ result[1].den > 0
            /\ 0 <= result[1].num
            /\ result[1].num <= result[1].den)
    /\ [][(result # NoResult /\ Len(args') = Len(args) + 1 /\ FixedDifficulty(args')) =>
            /\ AllCorrect(args') => LessEq(result[1], result'[1])
            /\ AllWrong(args') => LessEq(result'[1], result[1])]_vars

\* a third correct attempt appended to two correct ones: the score is 1
C9_Witness ==
    /\ result # NoResult
    /\ Len(args) = 3
    /\ AllCorrect(args)
    /\ FixedDifficulty(args)
    /\ args[1].difficulty = 3
    /\ result[1].num = result[1].den

-----------------------------------------------------------------------------
(* Properties of the weakness ranker *)

\* C8: no topic with mastery_score > 0.75 appears in the list returned by
\* identify_weakness_areas_v2, and every returned entry has
\* priority_score >= 0.
C8_WeaknessFilter ==
    result # NoResult =>
        \A i \in 1..Len(result[1]) :
            /\ ~(result[1][i].mastery_score > 750)
            /\ \A k \in 1..Len(args.topic_mastery) :
                  args.topic_mastery[k].mastery_score > 750
                      => result[1][i].topic # args.topic_mastery[k].topic
            /\ result[1][i].priority_score.den > 0
            /\ result[1][i].priority_score.num >= 0

\* a topic at 0.751 and a topic at exactly 0.75 with a marked question: only
\* the second is returned, with a positive priority
C8_Witness ==
    /\ result # NoResult
    /\ Len(args.topic_mastery) = 2
    /\ args.topic_mastery[1].mastery_score = 751
    /\ args.topic_mastery[2].mastery_score = 750
    /\ Len(result[1]) = 1
    /\ result[1][1].topic = args.topic_mastery[2].topic
    /\ result[1][1].exposure_count = 1
    /\ result[1][1].priority_score.num > 0

-----------------------------------------------------------------------------
(* Properties of the test taking *)

IsMastered(pool, q) == q \in DOMAIN pool /\ Get(pool[q], "is_mastered", FALSE) = TRUE

\* C5: is_mastered is monotonic: once a question's is_mastered is true, no
\* step of start_test, submit_answer (update_question_performance),
\* mark_questions_used, the generation or the tracking-field migration sets
\* it back to false.
C5_MasteredIsMonotonic ==
    [][\A q \in QuestionIds :
          IsMastered(db_questions, q) => IsMastered(db_questions', q)]_vars

-----------------------------------------------------------------------------
(* Properties of the reviews from mistakes *)

AnsweredIncorrectly(question_id) ==
    \E sid \in DOMAIN test_sessions :
        \E i \in 1..Len(test_sessions[sid].answers) :
            /\ test_sessions[sid].answers[i].question_id = question_id
            /\ test_sessions[sid].answers[i].status = "wrong"

\* C11: after any sequence of create_reviews_from_mistakes calls a review
\* item exists for a (user, question) pair only if the user answered that
\* question incorrectly in one of the sessions, and there is at most one
\* review item per (user, question) pair.
C11_ReviewsOnlyFromMistakes ==
    /\ \A r \in DOMAIN reviews : AnsweredIncorrectly(reviews[r].question_id)
    /\ \A r1, r2 \in DOMAIN reviews :
          (/\ reviews[r1].user_id = reviews[r2].user_id
           /\ reviews[r1].question_id = reviews[r2].question_id) => r1 = r2

-----------------------------------------------------------------------------
(* Properties of the review counters *)

\* C12: every update_review increases total_reviews by exactly 1 and
\* successful_reviews by 1 if and only if the response's correct flag is
\* true, whatever the quality; successful_reviews <= total_reviews in every
\* reachable state.
C12_ReviewCounters ==
    /\ [](\A rid \in DOMAIN reviews :
             reviews[rid].successful_reviews <= reviews[rid].total_reviews)
    /\ [][\A p \in Callers :
             (calls[p].pc = "found" /\ calls'[p].pc = "idle") =>
                 LET rid == calls[p].rid
                 IN  /\ reviews'[rid].total_reviews = reviews[rid].total_reviews + 1
                     /\ reviews'[rid].successful_reviews =
                            reviews[rid].successful_reviews
                            + (IF calls[p].correct THEN 1 ELSE 0)]_vars

-----------------------------------------------------------------------------
(* Properties of single calculate_next_review calls *)

FirstGoodReview == [interval |-> 1, repetitions |-> 0, ease_factor |-> 250, quality |-> 4]

-----------------------------------------------------------------------------
(* Properties of runs of calculate_next_review *)

PerfectRecall == \A k \in 1..Len(args) : args[k].quality = 5

\* C14: in a run of calculate_next_review calls with quality 5 from
\* (interval 1, repetitions 0, ease 2.5) the intervals are 1, then 6, then
\* round(6 * ease') for the ease factor the third call returns, and from the
\* third call on each interval is strictly greater than the one before.
C14_PerfectRecallRun ==
    PerfectRecall =>
        /\ Len(result) >= 1 => result[1].interval = 1
        /\ Len(result) >= 2 => result[2].interval = 6
        /\ Len(result) >= 3 =>
               result[3].interval = Round(6 * result[3].ease_factor, 100)
        /\ \A k \in 3..Len(result) : result[k].interval > result[k - 1].interval

C14_Witness ==
    /\ PerfectRecall
    /\ Len(result) >= 4
    /\ result[3].interval = 17
    /\ result[4].interval > 17

-----------------------------------------------------------------------------
(* Properties of the pool counters *)

NoUpdateRunning == \A p \in Callers : requests[p].pc = "idle"

\* C15: an update_question_performance call adds 1 to times_answered and 1
\* to times_correct iff the answer is correct; times_correct never exceeds
\* times_answered; and for questions that start unmastered, whenever no call
\* is running is_mastered is true iff times_correct >= 2, whatever the
\* interleaving of the calls was.
C15_PoolCounters ==
    /\ [](\A q \in DOMAIN db_questions :
             /\ TimesCorrect(db_questions[q]) <= TimesAnswered(db_questions[q])
             /\ NoUpdateRunning =>
                    (IsMastered(db_questions, q) <=> TimesCorrect(db_questions[q]) >= 2))
    /\ [][\A p \in Callers, q \in DOMAIN db_questions, is_correct \in BOOLEAN :
             update_question_performance_inc(p, q, is_correct) =>
                 /\ TimesAnswered(db_questions'[q]) = TimesAnswered(db_questions[q]) + 1
                 /\ TimesCorrect(db_questions'[q]) =
                        TimesCorrect(db_questions[q]) + (IF is_correct THEN 1 ELSE 0)
                 /\ \A o \in DOMAIN db_questions \ {q} :
                        db_questions'[o] = db_questions[o]]_vars

\* q1, which started unmastered, has been answered correctly until
\* times_correct is 3 or more; every call has returned and it is mastered
C15_Witness ==
    /\ NoUpdateRunning
    /\ TimesCorrect(db_questions["q1"]) >= 3
    /\ IsMastered(db_questions, "q1")

-----------------------------------------------------------------------------
(* Properties of the order inside a tier *)

\* last_used_at of a question, a missing or null one counted as datetime.min
LastUsed(q) ==
    IF Get(q, "last_used_at", None) = None THEN DatetimeMin ELSE q.last_used_at

\* C16: _prioritize_questions never fails, whether last_used_at of a question
\* is absent, null or a time, and in its output the questions of one tier
\* are in ascending order of last_used_at, those without a timestamp before
\* those of the tier that have one.
C16_LeastRecentlyUsedFirst ==
    result # NoResult =>
        /\ result[1].ok
        /\ LET out == result[1].list
           IN  \A i, j \in 1..Len(out) :
                   (i < j /\ Tier(out[i]) = Tier(out[j])) =>
                       LastUsed(out[i]) <= LastUsed(out[j])

-----------------------------------------------------------------------------
(* Properties of the weakness cutoff *)

ReportedTopics == {result[1][i].topic : i \in 1..Len(result[1])}

\* C17 as stated: every entry of the list identify_weakness_areas_v2 returns
\* has mastery_score strictly below 0.75, and a topic whose mastery_score is
\* exactly 0.75 is not reported.
C17_CutoffExclusive ==
    result # NoResult =>
        /\ \A i \in 1..Len(result[1]) : result[1][i].mastery_score < 750
        /\ \A k \in 1..Len(args.topic_mastery) :
              args.topic_mastery[k].mastery_score = 750
                  => args.topic_mastery[k].topic \notin ReportedTopics

\* C17 as amended: every entry of the list has mastery_score at most 0.75,
\* and a topic whose mastery_score is exactly 0.75 is reported as a
\* weakness, with its mastery_score.
C17_CutoffInclusive ==
    result # NoResult =>
        /\ \A i \in 1..Len(result[1]) : result[1][i].mastery_score <= 750
        /\ \A k \in 1..Len(args.topic_mastery) :
              args.topic_mastery[k].mastery_score = 750
                  => \E i \in 1..Len(result[1]) :
                         /\ result[1][i].topic = args.topic_mastery[k].topic
                         /\ result[1][i].mastery_score = 750

\* the only topic given has mastery exactly 0.75 and no question seen: it is
\* the one entry returned
C17_Witness ==
    /\ result # NoResult
    /\ Len(args.topic_mastery) = 1
    /\ args.topic_mastery[1].mastery_score = 750
    /\ args.signals = <<>>
    /\ Len(result[1]) = 1
    /\ result[1][1].mastery_score = 750
    /\ result[1][1].weakness_score = 250

-----------------------------------------------------------------------------
(* Properties of the generation that start_test triggers *)

\* the questions of the document that start_test may reuse
Reusable == {q \in DOMAIN db_questions : Eligible(db_questions[q])}

\* the selection of start_test returns, with fewer questions than requested
FindsTooFew(p) ==
    /\ requests[p].pc = "start_select"
    /\ Cardinality(Reusable) < requests[p].total_questions
    /\ _prioritize_questions(Find(AllQuestions, Document, User)).ok

\* C18: when the selection of start_test returns fewer reusable questions
\* than requested, the step of start_test that follows schedules one
\* background task for exactly requested minus available questions and
\* returns (the task has not run), and neither that step nor the request
\* before it creates a test session or changes a question, last_used_at
\* included.
C18_GenerationIsFireAndForget ==
    [][\A p \in Callers :
          (FindsTooFew(p) /\ requests'[p] # requests[p]) =>
              /\ tasks' = Append(tasks, requests[p].total_questions
                                        - Cardinality(Reusable))
              /\ requests'[p] = IdleCall
              /\ test_sessions' = test_sessions
              /\ inserted_sessions' = inserted_sessions
              /\ db_questions' = db_questions]_vars

\* one question of two requested could be reused: a task for the other one
\* is pending, no request is running, there is no session and the question
\* has no last_used_at
C18_Witness ==
    /\ tasks = <<1>>
    /\ \A p \in Callers : requests[p].pc = "idle"
    /\ test_sessions = <<>>
    /\ inserted_sessions = 0
    /\ DOMAIN db_questions = {"q1"}
    /\ Reusable = {"q1"}
    /\ "last_used_at" \notin DOMAIN db_questions["q1"]

-----------------------------------------------------------------------------
(* Properties of the background generation *)

\* task i called the collaborator and got no question
CallFailed(i) ==
    /\ tasks[i].pc = "loop"
    /\ tasks'[i] # tasks[i]
    /\ tasks'[i].generated = tasks[i].generated

\* C19: a generate_questions_background task always terminates, and when a
\* call of the generation collaborator fails (it raises or returns no
\* question) the task makes no further call: it finishes, with fewer
\* questions than requested.
C19_NoRetry ==
    /\ [][\A i \in 1..Len(tasks) : CallFailed(i) => tasks'[i].pc = "done"]_vars
    /\ <>(\A i \in 1..Len(tasks) : tasks[i].pc = "done")

-----------------------------------------------------------------------------
(* Properties of the session state gating *)

Stored == <<test_sessions, question_statistics, db_questions>>

SubmitWritePcs == {"submit_stats_write", "submit_performance", "submit_mastered",
                   "submit_session"}

IsCompleted(sessions, sid) ==
    sid \in DOMAIN sessions /\ sessions[sid].status = "completed"

IsInProgress(sessions, sid) ==
    sid \in DOMAIN sessions /\ sessions[sid].status = "in_progress"

\* C20: submit_answer writes (statistics, pool counters, session) only while
\* the stored session is in progress, and get_test_results answers 200 only
\* for a completed session; a request rejected with 400 or 404 leaves the
\* stored sessions, question statistics and questions as they were; and a
\* completed session stays completed.
C20_SessionStateGating ==
    /\ [][\A p \in Callers :
             (requests[p].pc \in SubmitWritePcs /\ requests'[p] # requests[p])
                 => IsInProgress(test_sessions, requests[p].session_id)]_vars
    /\ [][\A p \in Callers, sid \in 1..2 :
             get_test_results(p, sid) =>
                 /\ result'[1].status_code = 200 <=> IsCompleted(test_sessions, sid)
                 /\ Stored' = Stored]_vars
    /\ [][\A p \in Callers :
             (/\ requests[p].pc = "submit_question"
              /\ requests[p].question_id \notin DOMAIN db_questions
              /\ requests'[p] # requests[p])
                 => (requests'[p] = IdleCall /\ Stored' = Stored)]_vars
    /\ [][\A sid \in DOMAIN test_sessions :
             IsCompleted(test_sessions, sid) => IsCompleted(test_sessions', sid)]_vars

-----------------------------------------------------------------------------
(* Properties of the adaptive targeting *)

\* C21: for an empty weakness list generate_adaptive_targeting_v2 returns no
\* weak topics, recommended_difficulty [medium] and 10 questions; for a
\* non-empty list it returns the topics of the first three entries, the
\* difficulties chosen by the mastery m of the first entry ([easy] for
\* m < 0.3, [easy, medium] for m < 0.6, else [medium]) and as estimate
\* 20 * (1 - m), as an integer, limited to 5..50.
C21_AdaptiveTargeting ==
    result # NoResult =>
        LET out == result[1]
        IN  IF args = <<>>
            THEN /\ out.weak_topics = <<>>
                 /\ out.recommended_difficulty = <<"medium">>
                 /\ out.estimated_questions_needed = 10
            ELSE LET m == args[1].mastery_score
                     exact == 20 * (1000 - m)
                 IN  /\ Len(out.weak_topics) = Min(3, Len(args))
                     /\ \A i \in 1..Len(out.weak_topics) :
                           out.weak_topics[i] = args[i].topic
                     /\ m < 300 => out.recommended_difficulty = <<"easy">>
                     /\ (m >= 300 /\ m < 600)
                           => out.recommended_difficulty = <<"easy", "medium">>
                     /\ m >= 600 => out.recommended_difficulty = <<"medium">>
                     /\ out.estimated_questions_needed >= 5
                     /\ out.estimated_questions_needed <= 50
                     /\ exact < 5000 => out.estimated_questions_needed = 5
                     /\ exact >= 5000 =>
                           /\ 1000 * out.estimated_questions_needed <= exact
                           /\ exact < 1000 * (out.estimated_questions_needed + 1)

\* four weaknesses, the first with mastery 1: three topics, [medium] and the
\* lower limit 5
C21_Witness ==
    /\ result # NoResult
    /\ Len(args) = 4
    /\ args[1].mastery_score = 1000
    /\ Len(result[1].weak_topics) = 3
    /\ result[1].recommended_difficulty = <<"medium">>
    /\ result[1].estimated_questions_needed = 5

-----------------------------------------------------------------------------
(* Properties of the exam readiness *)

\* the topics of the document with at least one answer given (correct or
\* wrong) in the sessions
AttemptedTopics ==
    {topic \in {args.topic_of[q] : q \in DOMAIN args.topic_of} :
        \E k \in 1..Len(args.sessions) :
            \E i \in 1..Len(args.sessions[k].answers) :
                /\ args.topic_of[args.sessions[k].answers[i].question_id] = topic
                /\ args.sessions[k].answers[i].status \in {"correct", "wrong"}}

\* C22: coverage_score of calculate_exam_readiness is the number of topics of
\* the document with at least one answer in the completed sessions of the
\* user, divided by the number of topics of the document, whatever the
\* correctness of the answers.
C22_CoverageCountsAttempts ==
    (result # NoResult /\ args.sessions # <<>>) =>
        result[1].coverage_score =
            Rat(Cardinality(AttemptedTopics),
                Cardinality({args.topic_of[q] : q \in DOMAIN args.topic_of}))

\* C23: estimated_study_hours equals round(max(0, 90 - overall_score) * 0.5)
\* for every overall_score from 0 to 100 in tenths, and is 0 when
\* overall_score >= 90.
C23_StudyHoursRounded ==
    result # NoResult =>
        /\ result[1] = Round(Max(0, 900 - args), 20)
        /\ args >= 900 => result[1] = 0

-----------------------------------------------------------------------------
(* Properties of the due queue *)

\* C24: get_due_reviews returns only items of the user whose
\* next_review_date is not after now, in non-increasing order of priority,
\* and no due item of the user that is left out has a strictly higher
\* priority than an item returned.
C24_DueQueue ==
    result # NoResult =>
        LET queue == result[1]
            returned == {queue[i].review_id : i \in 1..Len(queue)}
            due == {i \in 1..Len(args.reviews) :
                       /\ args.reviews[i].user_id = User
                       /\ args.reviews[i].next_review_date <= Today}
        IN  /\ returned \subseteq due
            /\ \A i \in 1..Len(queue) :
                  queue[i].priority = ReviewPriority(args.reviews[queue[i].review_id], Today)
            /\ \A i, j \in 1..Len(queue) : i < j => queue[i].priority >= queue[j].priority
            /\ \A left \in due \ returned :
                  \A i \in 1..Len(queue) :
                      ReviewPriority(args.reviews[left], Today) <= queue[i].priority

-----------------------------------------------------------------------------
(* Properties of the answers of a session *)

\* C25: in every reachable state of a session, whatever the interleaving of
\* the submit_answer, mark_question and finish_test_early requests on it,
\* every answer at a position below current_question_index has status
\* correct or wrong, and a completed session has no answer with status
\* not_attempted.
C25_NoAnswerLost ==
    \A sid \in DOMAIN test_sessions :
        LET session == test_sessions[sid]
        IN  /\ \A i \in 1..Len(session.answers) :
                  i <= session.current_question_index
                      => session.answers[i].status \in {"correct", "wrong"}
            /\ session.status = "completed"
                  => \A i \in 1..Len(session.answers) :
                         session.answers[i].status # "not_attempted"

-----------------------------------------------------------------------------
(* Properties of the alignment of answers and questions *)

\* the question at the current position of the stored session
CurrentQuestion(sid) ==
    LET session == test_sessions[sid]
    IN  IF session.current_question_index < Len(session.questions)
        THEN session.questions[session.current_question_index + 1]
        ELSE None

\* C26: after any sequence of submit_answer requests the answer stored at
\* position i of a session has the question_id questions[i], and a
\* submit_answer updates the question statistics and the pool counters only
\* of the question at the current position of the session.
C26_AnswersAligned ==
    /\ [](\A sid \in DOMAIN test_sessions :
             \A i \in 1..Len(test_sessions[sid].answers) :
                 test_sessions[sid].answers[i].question_id
                     = test_sessions[sid].questions[i])
    /\ [][\A p \in Callers :
             (/\ requests[p].pc \in {"submit_stats_write", "submit_performance"}
              /\ requests'[p] # requests[p])
                 => requests[p].question_id = CurrentQuestion(requests[p].session_id)]_vars

-----------------------------------------------------------------------------
(* Properties of start_test *)

\* C27: after any sequence or interleaving of start_test requests of a user
\* for a document at most one session of that user and document is in
\* progress, and a start_test that finds a session in progress with a
\* correct answer returns it and creates no session.
C27_OneSessionInProgress ==
    /\ [](Cardinality(InProgress) <= 1)
    /\ [][\A p \in Callers, total_questions \in 1..MaxTotalQuestions :
             (/\ start_test_find_existing(p, total_questions)
              /\ \E sid \in InProgress :
                     \E i \in 1..Len(test_sessions[sid].answers) :
                         Get(test_sessions[sid].answers[i], "is_correct", FALSE) = TRUE)
                 => /\ requests'[p] = IdleCall
                    /\ test_sessions' = test_sessions]_vars


\* C28: a start_test request that creates no session (the generation-needed
\* response, or the error response of the selection) leaves the stored test
\* sessions as they were before the request: it has deleted none.
C28_FailedStartChangesNothing ==
    [][\A p \in Callers :
          (/\ start_test_select(p)
           /\ requests'[p] = IdleCall)
              => requests[p].existing_test = None]_vars

-----------------------------------------------------------------------------
(* Properties of submit_review_response *)

\* C29: submit_review_response changes a review item only if the item
\* belongs to the calling user and is listed in the review_ids of the review
\* session named in the request; any other request leaves every review item
\* unchanged.
C29_ReviewOwnership ==
    [][\A p \in Callers :
          (/\ calls[p].pc = "review_found"
           /\ calls'[p].pc = "session_update")
              => /\ \A rid \in DOMAIN reviews \ {calls[p].review_id} :
                        reviews'[rid] = reviews[rid]
                 /\ reviews[calls[p].review_id].user_id = calls[p].user_id
                 /\ \E i \in 1..Len(review_sessions[calls[p].session_id].review_ids) :
                        review_sessions[calls[p].session_id].review_ids[i]
                            = calls[p].review_id]_vars

-----------------------------------------------------------------------------
(* Properties of topics answered without a mistake *)

\* the TopicMastery of a topic, with the score of _calculate_weighted_mastery
\* in thousandths
TopicMasteryOf(topic, score) ==
    [topic |-> topic, mastery_score |-> (1000 * score.num) \div score.den,
     easy_correct |-> 0, easy_wrong |-> 0]

\* C30: a topic in which every answered attempt is correct, whatever the
\* empirical difficulties in [0, 1] of its questions, gets mastery_score 1
\* and does not appear in the list of identify_weakness_areas_v2.
C30_PerfectTopicsAreNotWeaknesses ==
    (result # NoResult /\ args # <<>> /\ AllCorrect(args)) =>
        /\ result[1].num = result[1].den
        /\ identify_weakness_areas_v2(
               <<TopicMasteryOf("t1", result[1])>>, <<>>, <<>>) = <<>>

=============================================================================
